---- MODULE Spec2Model ----
(***************************************************************************)
(* Model of the drawing store of excalidraw_server: the identifier         *)
(* validator (lib/validation.ts), the content store and save orchestrator  *)
(* (lib/drawings.ts, LowDB revision), the metadata index (lib/db.ts), the  *)
(* DELETE route (app/api/drawings/[id]/route.ts) and the reconciliation    *)
(* script (scripts/rebuild-metadata.js).                                   *)
(*                                                                         *)
(* Strings are sequences of one-character strings, so that length,         *)
(* substring and character-class tests are computed as the code computes   *)
(* them.  Timestamps are integers (milliseconds read from the wall clock). *)
(***************************************************************************)
EXTENDS Integers, Sequences, FiniteSets, TLC

VARIABLES
    files,      \* content directory: stem of each <stem>.excalidraw |-> its text
    dbFile,     \* metadata.json on disk
    db,         \* the server's cached LowDB instance (lib/db.ts `db`)
    backups,    \* metadata.json.backup.<ms> files: ms |-> copied content
    clock,      \* the wall clock, in milliseconds
    last,       \* the last operation and its outcome
    fsops,      \* filesystem calls the last operation issued, in order
    lastSaved,  \* per identifier: payload of the latest save not yet disturbed
    runs,       \* how many times the reconciliation script has been run
    calls,      \* requests in flight on the server: per call, where it is suspended
    heap,       \* lib/db.ts in memory: `db`, the Low instances, defaultData, queued writes
    editor      \* one editor page: its React state and its requests

vars == <<files, dbFile, db, backups, clock, last, fsops, lastSaved, runs, calls, heap, editor>>

-----------------------------------------------------------------------------
(* Bounds of the model.                                                    *)

MaxClock == 1
MaxFresh == 2
MaxRuns == 1
MaxSaves == 2

-----------------------------------------------------------------------------
(* Strings.                                                                *)

LowerChars == {"a","b","c","d","e","f","g","h","i","j","k","l","m",
               "n","o","p","q","r","s","t","u","v","w","x","y","z"}
UpperChars == {"A","B","C","D","E","F","G","H","I","J","K","L","M",
               "N","O","P","Q","R","S","T","U","V","W","X","Y","Z"}
DigitChars == {"0","1","2","3","4","5","6","7","8","9"}
HexChars == DigitChars \cup {"a","b","c","d","e","f","A","B","C","D","E","F"}

\* String.prototype.includes
includes(s, sub) ==
    \E i \in 1..(Len(s) - Len(sub) + 1) : SubSeq(s, i, i + Len(sub) - 1) = sub

\* String.prototype.substring(0, n)
substring0(s, n) == SubSeq(s, 1, IF Len(s) < n THEN Len(s) ELSE n)

Repeat(c, n) == [i \in 1..n |-> c]

-----------------------------------------------------------------------------
(* lib/validation.ts                                                       *)

MaxIdLength == 100

\* /^[a-zA-Z0-9_-]+$/
IdRegexTest(id) ==
    /\ Len(id) >= 1
    /\ \A i \in 1..Len(id) : id[i] \in LowerChars \cup UpperChars \cup DigitChars \cup {"_", "-"}

isValidDrawingIdNoRegex(id) ==
    IF id = <<>> THEN FALSE
    ELSE IF includes(id, <<".", ".">>) \/ includes(id, <<"/">>) \/ includes(id, <<"\\">>)
         THEN FALSE
    ELSE IF Len(id) = 0 \/ Len(id) > MaxIdLength THEN FALSE
    ELSE TRUE

isValidDrawingId(id) ==
    IF id = <<>> THEN FALSE
    ELSE IF includes(id, <<".", ".">>) \/ includes(id, <<"/">>) \/ includes(id, <<"\\">>)
         THEN FALSE
    ELSE IF Len(id) = 0 \/ Len(id) > MaxIdLength THEN FALSE
    ELSE IdRegexTest(id)

-----------------------------------------------------------------------------
(* scripts/rebuild-metadata.js: isValidUUID                                *)

\* /^[0-9a-f]{8}-[0-9a-f]{4}-4[0-9a-f]{3}-[89ab][0-9a-f]{3}-[0-9a-f]{12}$/i
isValidUUID(id) ==
    IF id = <<>> THEN FALSE
    ELSE /\ Len(id) = 36
         /\ \A i \in 1..36 :
               IF i \in {9, 14, 19, 24} THEN id[i] = "-"
               ELSE IF i = 15 THEN id[i] = "4"
               ELSE IF i = 20 THEN id[i] \in {"8", "9", "a", "b", "A", "B"}
               ELSE id[i] \in HexChars

\* The version-4 UUID whose free hexadecimal digits are all c.
Uuid(c) ==
    [i \in 1..36 |-> IF i \in {9, 14, 19, 24} THEN "-"
                     ELSE IF i = 15 THEN "4"
                     ELSE IF i = 20 THEN "8"
                     ELSE c]

-----------------------------------------------------------------------------
(* Identifiers and file stems.                                             *)
(*                                                                         *)
(* The state holds an identifier (a file stem, a record's id) by a short   *)
(* name; Text gives the characters it spells, and every test the code      *)
(* makes on an identifier is computed on those characters.  Distinct names *)
(* spell distinct strings, so === on identifiers is = on names.            *)

\* UUIDs that uuidv4() may return.
PoolSeq == <<"F1", "F2", "F3", "F4">>

Text(name) ==
    CASE name = "U1" -> Uuid("a")
      [] name = "U2" -> Uuid("b")
      [] name = "N1" -> <<"m", "y">>
      [] name = "F1" -> Uuid("1")
      [] name = "F2" -> Uuid("2")
      [] name = "F3" -> Uuid("3")
      [] name = "F4" -> Uuid("5")
      [] name = "empty" -> <<>>
      [] name = "dotdot" -> <<".", ".">>
      [] name = "slash" -> <<"a", "/", "b">>
      [] name = "backslash" -> <<"\\">>
      [] name = "inner-dotdot" -> <<"a", ".", ".", "b">>
      [] name = "len101" -> Repeat("a", MaxIdLength + 1)
      [] name = "len100" -> Repeat("a", MaxIdLength)
      [] name = "len100-slash" -> Repeat("a", MaxIdLength - 1) \o <<"/">>
      [] name = "len101-dashes" -> Repeat("-", MaxIdLength + 1)
      [] name = "space" -> <<"a", " ">>
      [] name = "dot" -> <<".">>
      [] name = "a.b" -> <<"a", ".", "b">>
      [] name = "Z9_-" -> <<"Z", "9", "_", "-">>
      [] name = "newline" -> <<"a", "\n">>
      [] name = "percent" -> <<"%">>
      [] name = "upper-uuid" -> [i \in 1..36 |-> IF Uuid("A")[i] = "8" THEN "B" ELSE Uuid("A")[i]]
      [] name = "uuid-v1" -> [i \in 1..36 |-> IF i = 15 THEN "1" ELSE Uuid("c")[i]]

Names == {"U1", "U2", "N1", "F1", "F2", "F3", "F4", "empty", "dotdot", "slash",
          "backslash", "inner-dotdot", "len101", "len100", "len100-slash",
          "len101-dashes", "space", "dot", "a.b", "Z9_-", "newline", "percent",
          "upper-uuid", "uuid-v1"}

\* The two tests of the code, tabulated over the names.
IsDrawingId == [name \in Names |-> isValidDrawingId(Text(name))]
IsUUID == [name \in Names |-> isValidUUID(Text(name))]

-----------------------------------------------------------------------------
(* JavaScript values and JSON text.                                        *)
(*                                                                         *)
(* Both are trees of nodes [k, n, t, v]: k is the kind, n the property     *)
(* name when the node is the value of an object property ("" otherwise),   *)
(* t the token of a number or string, v the children (the elements of an   *)
(* array, the own properties of an object in insertion order).  Kinds of   *)
(* JavaScript values: null, undef, num, str, arr, obj, and text: a string  *)
(* described by the JSON text it spells.  Kinds of JSON text: jnull, jnum, *)
(* jstr, jarr, jobj, and invalid for text that is not JSON.  Whitespace    *)
(* and indentation of the text are not represented.                        *)

Node(k, t, v) == [k |-> k, n |-> "", t |-> t, v |-> v]
Prop(name, x) == [x EXCEPT !.n = name]

JsNull == Node("null", "", <<>>)
JsUndefined == Node("undef", "", <<>>)
JsNum(tok) == Node("num", tok, <<>>)
JsStr(tok) == Node("str", tok, <<>>)
JsArr(elems) == Node("arr", "", elems)
JsObj(props) == Node("obj", "", props)
JsText(tree) == Node("text", "", <<tree>>)

TNull == Node("jnull", "", <<>>)
TNum(tok) == Node("jnum", tok, <<>>)
TStr(tok) == Node("jstr", tok, <<>>)
TArr(elems) == Node("jarr", "", elems)
TObj(members) == Node("jobj", "", members)
TInvalid == Node("invalid", "", <<>>)

\* Number literals whose magnitude exceeds the double range parse to Infinity.
OverflowLiterals == {"1e400"}
NonFiniteNumbers == {"NaN", "Infinity"}

IsDefinedProp(p) == p.k # "undef"

\* JSON.stringify(value, null, 2) of an object or array: properties holding
\* undefined are dropped, undefined array elements and non-finite numbers
\* are written as null.
RECURSIVE JSONstringify(_)
JSONstringify(x) ==
    CASE x.k = "null" -> Prop(x.n, TNull)
      [] x.k = "undef" -> Prop(x.n, TNull)
      [] x.k = "num" -> Prop(x.n, IF x.t \in NonFiniteNumbers THEN TNull ELSE TNum(x.t))
      [] x.k = "str" -> Prop(x.n, TStr(x.t))
      [] x.k = "text" -> Prop(x.n, TStr("text"))
      [] x.k = "arr" -> Prop(x.n, TArr([i \in 1..Len(x.v) |-> JSONstringify(x.v[i])]))
      [] x.k = "obj" ->
           LET kept == SelectSeq(x.v, IsDefinedProp)
           IN  Prop(x.n, TObj([i \in 1..Len(kept) |-> JSONstringify(kept[i])]))

JSONparseThrows(t) == t.k = "invalid"

\* JSON.parse of text that is JSON.
RECURSIVE JSONparse(_)
JSONparse(t) ==
    CASE t.k = "jnull" -> Prop(t.n, JsNull)
      [] t.k = "jnum" -> Prop(t.n, IF t.t \in OverflowLiterals THEN JsNum("Infinity")
                                   ELSE JsNum(t.t))
      [] t.k = "jstr" -> Prop(t.n, JsStr(t.t))
      [] t.k = "jarr" -> Prop(t.n, JsArr([i \in 1..Len(t.v) |-> JSONparse(t.v[i])]))
      [] t.k = "jobj" -> Prop(t.n, JsObj([i \in 1..Len(t.v) |-> JSONparse(t.v[i])]))

\* typeof x === 'object' (true of null, arrays and objects)
TypeofObject(x) == x.k \in {"null", "arr", "obj"}
\* !x
Falsy(x) ==
    \/ x.k \in {"null", "undef"}
    \/ (x.k = "num" /\ x.t \in {"0", "NaN"})
    \/ (x.k = "str" /\ x.t = "")

\* drawing[name]: the property of that name, undefined when there is none
GetProp(x, name) ==
    IF x.k = "obj" /\ \E i \in 1..Len(x.v) : x.v[i].n = name
    THEN x.v[CHOOSE i \in 1..Len(x.v) : x.v[i].n = name]
    ELSE JsUndefined

\* lib/validation.ts: isValidDrawingData(data), the scene envelope
isValidDrawingData(data) ==
    /\ ~Falsy(data)
    /\ TypeofObject(data)
    /\ GetProp(data, "type").k = "str"
    /\ GetProp(data, "type").t = "excalidraw"
    /\ GetProp(data, "version").k = "num"
    /\ GetProp(data, "elements").k = "arr"
    /\ GetProp(data, "appState").k \in {"arr", "obj"}

\* A value every part of which JSON text can express.
RECURSIVE JsonRepresentable(_)
JsonRepresentable(x) ==
    CASE x.k \in {"null", "str"} -> TRUE
      [] x.k = "num" -> x.t \notin NonFiniteNumbers
      [] x.k \in {"arr", "obj"} -> \A i \in 1..Len(x.v) : JsonRepresentable(x.v[i])
      [] OTHER -> FALSE

-----------------------------------------------------------------------------
(* Metadata records and the index (lib/types.ts DrawingMetadata,           *)
(* lib/db.ts).                                                             *)

Metadata(id, title, created, updated) ==
    [id |-> id, title |-> title, created_at |-> created, updated_at |-> updated]

Ids(drawings) == {drawings[i].id : i \in 1..Len(drawings)}

\* Array.prototype.findIndex((d) => d.id === id), 1-based; 0 when absent.
findIndex(drawings, id) ==
    IF \E i \in 1..Len(drawings) : drawings[i].id = id
    THEN CHOOSE i \in 1..Len(drawings) :
             /\ drawings[i].id = id
             /\ \A j \in 1..(i - 1) : drawings[j].id # id
    ELSE 0

\* metadata.json: absent, unreadable as JSON, or { drawings: [...] }.
AbsentDb == [state |-> "absent", drawings |-> <<>>]
DbFileOf(drawings) == [state |-> "ok", drawings |-> drawings]

\* The module variable `db` before the first getDatabase().
NoDb == [loaded |-> FALSE, drawings |-> <<>>]

\* getDatabase(): the cached instance, or a new one holding what db.read()
\* found (defaultData when metadata.json is absent).  When db.read() throws
\* the instance has already been assigned with defaultData.
getDatabase(d, f) ==
    IF d.loaded THEN d
    ELSE [loaded |-> TRUE, drawings |-> IF f.state = "ok" THEN f.drawings ELSE <<>>]

\* db.read() throws on text that is not JSON.
getDatabaseThrows(d, f) == ~d.loaded /\ f.state = "corrupt"

FsCall(call, kind, name) == [call |-> call, kind |-> kind, name |-> name]

\* Filesystem calls of getDatabase().
getDatabaseCalls(d) ==
    IF d.loaded THEN <<>>
    ELSE <<FsCall("mkdir", "dir", ""), FsCall("readFile", "db", "")>>

-----------------------------------------------------------------------------
(* lib/drawings.ts (LowDB revision).                                       *)

WhiteSpace == {" ", "\t", "\n"}

RECURSIVE trimStart(_)
trimStart(s) ==
    IF s # <<>> /\ Head(s) \in WhiteSpace THEN trimStart(Tail(s)) ELSE s

RECURSIVE trimEnd(_)
trimEnd(s) ==
    IF s # <<>> /\ s[Len(s)] \in WhiteSpace THEN trimEnd(SubSeq(s, 1, Len(s) - 1)) ELSE s

\* String.prototype.trim
trim(s) == trimEnd(trimStart(s))

\* An optional title argument: undefined, null or a string.
TitleUndefined == [k |-> "undef", s |-> <<>>]
TitleNull == [k |-> "null", s |-> <<>>]
TitleStr(s) == [k |-> "str", s |-> s]

TitlePrefixLength == 8

\* lib/validation.ts: isValidTitle(title), with the limits of lib/constants.ts
MinTitleLength == 1
MaxTitleLength == 200
isValidTitle(title) ==
    IF title.k # "str" \/ title.s = <<>> THEN TRUE
    ELSE Len(title.s) >= MinTitleLength /\ Len(title.s) <= MaxTitleLength

\* title?.trim() || `Drawing ${drawingId.substring(0, 8)}`
safeTitle(title, drawingId) ==
    IF title.k = "str" /\ trim(title.s) # <<>>
    THEN trim(title.s)
    ELSE <<"D", "r", "a", "w", "i", "n", "g", " ">> \o substring0(Text(drawingId), TitlePrefixLength)

\* loadMetadata(drawingId) on the instance getDatabaseData() returns:
\* <<record>> or <<>> for null.
loadMetadata(d, drawingId) ==
    IF ~IsDrawingId[drawingId] THEN <<>>
    ELSE LET i == findIndex(d.drawings, drawingId)
         IN  IF i = 0 THEN <<>> ELSE <<d.drawings[i]>>

\* The record saveDrawing builds from the existing one (if any) at time now.
BuildMetadataResetCreated(existing, drawingId, title, now) ==
    Metadata(drawingId, safeTitle(title, drawingId), now, now)

BuildMetadata(existing, drawingId, title, now) ==
    IF existing # <<>>
    THEN [existing[1] EXCEPT !.title = safeTitle(title, drawingId), !.updated_at = now]
    ELSE Metadata(drawingId, safeTitle(title, drawingId), now, now)

\* The upsert of saveDrawing into db.data.drawings.
UpsertAlwaysPush(drawings, metadata) == Append(drawings, metadata)

Upsert(drawings, metadata) ==
    LET existingIndex == findIndex(drawings, metadata.id)
    IN  IF existingIndex >= 1
        THEN [drawings EXCEPT ![existingIndex] = metadata]
        ELSE Append(drawings, metadata)

\* The payload checks of saveDrawing: [ok, err, parsed].
Rejected(err) == [ok |-> FALSE, err |-> err, parsed |-> JsNull]
CheckObject(parsedData) ==
    IF Falsy(parsedData) \/ ~TypeofObject(parsedData)
    THEN Rejected("Drawing data must be an object")
    ELSE [ok |-> TRUE, err |-> "", parsed |-> parsedData]

NormalizePayload(drawingData) ==
    IF drawingData.k = "text"
    THEN IF JSONparseThrows(drawingData.v[1])
         THEN Rejected("Invalid drawing data format")
         ELSE CheckObject(JSONparse(drawingData.v[1]))
    ELSE CheckObject(drawingData)

\* What saveDrawing hands to fs.writeFile for the content file.
ContentTextRaw(drawingData, parsedData) == JSONstringify(drawingData)

ContentText(drawingData, parsedData) == JSONstringify(parsedData)

-----------------------------------------------------------------------------
(* scripts/rebuild-metadata.js                                             *)

\* Number.prototype.toString of a non-negative integer.
RECURSIVE Digits(_)
Digits(n) ==
    LET d == <<"0", "1", "2", "3", "4", "5", "6", "7", "8", "9">>[(n % 10) + 1]
    IN  IF n < 10 THEN <<d>> ELSE Digits(n \div 10) \o <<d>>

ImportedPrefix == <<"i", "m", "p", "o", "r", "t", "e", "d", "-">>

\* readDatabase(): the drawings of metadata.json; [] when the file is
\* absent or cannot be parsed.
readDatabase(f) == IF f.state = "ok" THEN f.drawings ELSE <<>>

\* existingMetadata: a Map in insertion order, as a sequence of records
\* with distinct ids (a later record of the same id takes the place of the
\* earlier one).
MapSet(m, meta) ==
    LET i == findIndex(m, meta.id)
    IN  IF i = 0 THEN Append(m, meta) ELSE [m EXCEPT ![i] = meta]

RECURSIVE MapOfDrawings(_)
MapOfDrawings(drawings) ==
    IF drawings = <<>> THEN <<>>
    ELSE MapSet(MapOfDrawings(SubSeq(drawings, 1, Len(drawings) - 1)), drawings[Len(drawings)])

MapGet(m, id) == LET i == findIndex(m, id) IN IF i = 0 THEN <<>> ELSE <<m[i]>>
IsNot(id, meta) == meta.id # id
MapDelete(m, id) ==
    LET i == findIndex(m, id)
    IN  IF i = 0 THEN m ELSE SubSeq(m, 1, i - 1) \o SubSeq(m, i + 1, Len(m))

\* One entry of scanDrawingsDirectory(): newId is what uuidv4() returned
\* for this file (used only when the name is no UUID).
DrawingFileAlwaysRenamed(currentId, newId) ==
    [id |-> IF IsUUID[currentId] THEN currentId ELSE newId,
     currentId |-> currentId,
     needsRename |-> TRUE]

DrawingFile(currentId, newId) ==
    [id |-> IF IsUUID[currentId] THEN currentId ELSE newId,
     currentId |-> currentId,
     needsRename |-> ~IsUUID[currentId]]

\* createDefaultMetadata(drawingFile) at clock reading now.
createDefaultMetadataUuidTitle(drawingFile, now) ==
    Metadata(drawingFile.id, Text(drawingFile.id), now, now)

createDefaultMetadata(drawingFile, now) ==
    Metadata(drawingFile.id,
             IF drawingFile.needsRename THEN Text(drawingFile.currentId)
             ELSE ImportedPrefix \o Digits(now),
             now, now)

\* existing.id = drawingFile.id: the record found under the old identifier
\* of a file that is renamed takes the new identifier.
MigrateIdRetitled(existing, drawingFile) ==
    [existing EXCEPT !.id = drawingFile.id, !.title = Text(drawingFile.currentId)]

MigrateId(existing, drawingFile) == [existing EXCEPT !.id = drawingFile.id]

\* The loop over the scanned files: [map, toAdd, toKeep, toRename].
RECURSIVE ProcessFiles(_, _, _)
ProcessFiles(drawingFiles, map, now) ==
    IF drawingFiles = <<>>
    THEN [map |-> map, toAdd |-> <<>>, toKeep |-> <<>>, toRename |-> <<>>]
    ELSE LET acc == ProcessFiles(SubSeq(drawingFiles, 1, Len(drawingFiles) - 1), map, now)
             drawingFile == drawingFiles[Len(drawingFiles)]
             byNewId == MapGet(acc.map, drawingFile.id)
             byOldId == IF byNewId = <<>> /\ drawingFile.needsRename
                        THEN MapGet(acc.map, drawingFile.currentId)
                        ELSE <<>>
             existing == IF byNewId # <<>> THEN byNewId
                         ELSE IF byOldId # <<>>
                         THEN <<MigrateId(byOldId[1], drawingFile)>>
                         ELSE <<>>
         IN  [map |-> IF byOldId # <<>> THEN MapDelete(acc.map, drawingFile.currentId)
                      ELSE acc.map,
              toAdd |-> IF existing = <<>>
                        THEN Append(acc.toAdd, createDefaultMetadata(drawingFile, now))
                        ELSE acc.toAdd,
              toKeep |-> IF existing # <<>> THEN Append(acc.toKeep, existing[1])
                         ELSE acc.toKeep,
              toRename |-> IF drawingFile.needsRename THEN Append(acc.toRename, drawingFile)
                           ELSE acc.toRename]

\* Orphaned entries: records left in the map whose id names no scanned file.
OrphanedEntries(map, drawingFiles) ==
    LET hasFile(meta) == \E i \in 1..Len(drawingFiles) : drawingFiles[i].id = meta.id
        orphan(meta) == ~hasFile(meta)
    IN  SelectSeq(map, orphan)

\* Array.prototype.sort((a, b) => new Date(b.updated_at) - new Date(a.updated_at)):
\* a stable sort, most recent first.
RECURSIVE SortByUpdatedDesc(_)
SortByUpdatedDesc(drawings) ==
    IF drawings = <<>> THEN <<>>
    ELSE LET sorted == SortByUpdatedDesc(SubSeq(drawings, 1, Len(drawings) - 1))
             x == drawings[Len(drawings)]
             geq(m) == m.updated_at >= x.updated_at
             lt(m) == m.updated_at < x.updated_at
         IN  SelectSeq(sorted, geq) \o <<x>> \o SelectSeq(sorted, lt)

\* The renames of execute mode: every file of toRename whose rename does
\* not fail moves to its new name.
RECURSIVE RenameFiles(_, _, _)
RenameFiles(fs, toRename, failing) ==
    IF toRename = <<>> THEN fs
    ELSE LET file == Head(toRename)
             rest == Tail(toRename)
         IN  IF file.currentId \in failing \/ file.currentId \notin DOMAIN fs
             THEN RenameFiles(fs, rest, failing)
             ELSE RenameFiles(
                      [x \in (DOMAIN fs \ {file.currentId}) \cup {file.id} |->
                          IF x = file.id THEN fs[file.currentId] ELSE fs[x]],
                      rest, failing)

\* The rename loop of execute mode: each rename in its own try/catch.
ApplyRenamesAllOrNothing(fs, toRename, failing) ==
    IF \E i \in 1..Len(toRename) : toRename[i].currentId \in failing
    THEN fs
    ELSE RenameFiles(fs, toRename, failing)

ApplyRenames(fs, toRename, failing) == RenameFiles(fs, toRename, failing)

\* Whether this invocation applies its changes (--execute given).
AppliesChangesAlways(execute) == TRUE

AppliesChanges(execute) == execute

\* Whether the script returns before planning: no drawing file was found.
ReturnsOnEmptyScan(drawingFiles) == Len(drawingFiles) = 0

\* The order of the steps of execute mode.
ExecuteCallsBackupLast(hasDb, now, toRename) ==
    [i \in 1..Len(toRename) |-> FsCall("rename", "drawing", toRename[i].currentId)]
    \o <<FsCall("writeFile", "db", "")>>
    \o (IF hasDb THEN <<FsCall("copyFile", "backup", "")>> ELSE <<>>)

ExecuteCalls(hasDb, now, toRename) ==
    (IF hasDb THEN <<FsCall("copyFile", "backup", "")>> ELSE <<>>)
    \o [i \in 1..Len(toRename) |-> FsCall("rename", "drawing", toRename[i].currentId)]
    \o <<FsCall("writeFile", "db", "")>>

-----------------------------------------------------------------------------
(* lib/drawings.ts: listDrawings, and GET /api/drawings.                   *)

\* A number argument of JavaScript: an integer, NaN, or undefined.
Num(v) == [k |-> "num", v |-> v]
NaN == [k |-> "nan", v |-> 0]
NoNum == [k |-> "undef", v |-> 0]

\* x || dflt for a number x: 0, NaN and undefined are falsy.
OrDefault(x, dflt) == IF x.k = "num" /\ x.v # 0 THEN x.v ELSE dflt

\* Math.max / Math.min of two numbers: NaN when either is NaN.
MathMax(a, b) ==
    IF a.k = "nan" \/ b.k = "nan" THEN NaN ELSE Num(IF a.v >= b.v THEN a.v ELSE b.v)
MathMin(a, b) ==
    IF a.k = "nan" \/ b.k = "nan" THEN NaN ELSE Num(IF a.v <= b.v THEN a.v ELSE b.v)

UpperSeq == <<"A","B","C","D","E","F","G","H","I","J","K","L","M",
              "N","O","P","Q","R","S","T","U","V","W","X","Y","Z">>
LowerSeq == <<"a","b","c","d","e","f","g","h","i","j","k","l","m",
              "n","o","p","q","r","s","t","u","v","w","x","y","z">>

\* String.prototype.toLowerCase (on the letters A-Z)
toLowerCase(s) ==
    [i \in 1..Len(s) |->
        IF s[i] \in UpperChars
        THEN LowerSeq[CHOOSE j \in 1..Len(UpperSeq) : UpperSeq[j] = s[i]]
        ELSE s[i]]

DefaultPage == 1
DefaultLimit == 12

\* Array.prototype.slice(startIndex, endIndex) for 0 <= startIndex <= endIndex
slice(s, startIndex, endIndex) ==
    SubSeq(s, startIndex + 1, IF endIndex < Len(s) THEN endIndex ELSE Len(s))

\* Math.ceil(total / limit) for total >= 0, limit >= 1
MathFloorDiv(total, limit) == total \div limit

MathCeilDiv(total, limit) == (total + limit - 1) \div limit

\* The search filter of listDrawings: applied when options.search is a
\* string that is not empty and not empty after trim().
FilterBySearchCaseSensitive(drawings, search) ==
    IF search.k = "str" /\ search.s # <<>> /\ trim(search.s) # <<>>
    THEN LET matches(drawing) == includes(drawing.title, trim(search.s))
         IN  SelectSeq(drawings, matches)
    ELSE drawings

FilterBySearch(drawings, search) ==
    IF search.k = "str" /\ search.s # <<>> /\ trim(search.s) # <<>>
    THEN LET searchLower == trim(toLowerCase(search.s))
             matches(drawing) == includes(toLowerCase(drawing.title), searchLower)
         IN  SelectSeq(drawings, matches)
    ELSE drawings

\* [...dbData.drawings].sort(...): a sorted copy, most recently updated first
UnsortedCopy(drawings) == drawings

SortedCopy(drawings) == SortByUpdatedDesc(drawings)

\* No options given to listDrawings.
NoOptions == [page |-> NoNum, limit |-> NoNum, search |-> TitleUndefined]

\* listDrawings(options), for a page >= 1 and a limit >= 1 (or falsy ones,
\* which fall to the defaults): the records most recently updated first,
\* filtered, cut to the page; the empty result when the index cannot be
\* read.
listDrawings(d, f, options) ==
    IF getDatabaseThrows(d, f)
    THEN [drawings |-> <<>>, total |-> 0,
          page |-> OrDefault(options.page, DefaultPage),
          limit |-> OrDefault(options.limit, DefaultLimit), totalPages |-> 0]
    ELSE LET drawings == FilterBySearch(SortedCopy(getDatabase(d, f).drawings),
                                        options.search)
             total == Len(drawings)
             page == OrDefault(options.page, DefaultPage)
             limit == OrDefault(options.limit, DefaultLimit)
             startIndex == (page - 1) * limit
             endIndex == startIndex + limit
         IN  [drawings |-> slice(drawings, startIndex, endIndex), total |-> total,
              page |-> page, limit |-> limit, totalPages |-> MathCeilDiv(total, limit)]

\* parseInt(text, 10): leading white space, an optional sign, then the
\* longest run of decimal digits; NaN when there is no digit there.
DigitSeq == <<"0", "1", "2", "3", "4", "5", "6", "7", "8", "9">>
DigitValue(c) == (CHOOSE j \in 1..Len(DigitSeq) : DigitSeq[j] = c) - 1

RECURSIVE DigitRun(_)
DigitRun(s) ==
    IF s # <<>> /\ Head(s) \in DigitChars THEN <<Head(s)>> \o DigitRun(Tail(s)) ELSE <<>>

RECURSIVE DecimalValue(_)
DecimalValue(digits) ==
    IF digits = <<>> THEN 0
    ELSE 10 * DecimalValue(SubSeq(digits, 1, Len(digits) - 1)) + DigitValue(digits[Len(digits)])

parseInt(text) ==
    LET s == trimStart(text)
        negative == s # <<>> /\ Head(s) = "-"
        unsigned == IF s # <<>> /\ Head(s) \in {"-", "+"} THEN Tail(s) ELSE s
        run == DigitRun(unsigned)
    IN  IF run = <<>> THEN NaN
        ELSE Num(IF negative THEN 0 - DecimalValue(run) ELSE DecimalValue(run))

\* searchParams.get(name) || dflt: the parameter when present and not empty.
ParamOr(param, dflt) == IF param.k = "str" /\ param.s # <<>> THEN param.s ELSE dflt

MaxLimit == 100

\* GET: validPage and validLimit
ValidPage(page) == MathMax(Num(1), page)

ValidLimitNoCap(limit) == MathMax(Num(1), limit)

ValidLimit(limit) == MathMax(Num(1), MathMin(Num(MaxLimit), limit))

\* GET: the options handed to listDrawings for the query parameters.
GetOptions(pageParam, limitParam, searchParam) ==
    [page |-> ValidPage(parseInt(ParamOr(pageParam, <<"1">>))),
     limit |-> ValidLimit(parseInt(ParamOr(limitParam, <<"1", "2">>))),
     search |-> IF searchParam.k = "str" /\ searchParam.s # <<>> THEN searchParam
                ELSE TitleUndefined]

-----------------------------------------------------------------------------
(* Inputs.                                                                 *)

U1 == "U1"
U2 == "U2"
\* "my": a valid drawing identifier that is no UUID.
N1 == "N1"
\* Identifiers the validator must refuse.
BadIds == {"empty", "dotdot", "slash", "backslash", "inner-dotdot", "len101"}
\* Further candidates for the validator alone.
OddIds == {"space", "dot", "a.b", "Z9_-", "newline", "percent", "len100", "len100-slash",
           "len101-dashes", "upper-uuid", "uuid-v1"}
SaveIds == {U1, N1}
ValidatorInputs == SaveIds \cup BadIds \cup OddIds \cup {U2}

Scene == JsObj(<<Prop("type", JsStr("excalidraw")), Prop("version", JsNum("2")),
                 Prop("elements", JsArr(<<>>)), Prop("appState", JsObj(<<>>))>>)
SceneText == TObj(<<Prop("type", TStr("excalidraw")), Prop("version", TNum("2")),
                    Prop("elements", TArr(<<>>)), Prop("appState", TObj(<<>>))>>)
PayloadSeq ==
    << Scene,
       JsText(SceneText),
       JsText(TObj(<<Prop("version", TNum("1e400"))>>)),
       JsObj(<<Prop("version", JsNum("NaN")), Prop("files", JsUndefined)>>),
       JsArr(<<JsUndefined>>),
       JsArr(<<JsNum("2"), JsNull>>),
       JsText(TInvalid),
       JsText(TNum("2")),
       JsText(TNull),
       JsNull,
       JsNum("2"),
       JsUndefined >>
Payloads == {PayloadSeq[i] : i \in 1..Len(PayloadSeq)}

Titles == {TitleUndefined, TitleStr(<<" ", "T", " ">>)}
AllTitles == Titles \cup {TitleNull, TitleStr(<<" ">>)}

\* Titles a request may carry, and those the HTTP layer lets through to
\* saveDrawing.
RequestTitles == AllTitles \cup {TitleStr(Repeat("t", MaxTitleLength)),
                                 TitleStr(Repeat("t", MaxTitleLength + 1))}
AcceptedTitles == {title \in RequestTitles : isValidTitle(title)}

\* File stems that are no UUID, for runs that rename several files.
RenameStems == {N1, "Z9_-"}

\* Content of a file the user copied into the directory.
ForeignText == TObj(<<Prop("type", TStr("excalidraw"))>>)
ForeignStems == {U2, N1}

\* Indexes to query: n records saved one after another, stored in the
\* order of their first save, with the titles of SampleTitles in turn and,
\* by pattern, updated_at rising, falling or repeating along the stored
\* order.
IndexSizes == {0, 1, 4, 25}
StampPatterns == {"rising", "falling", "repeating"}
SampleTitles == << <<"F", "o", "o", " ", "b", "a", "r">>, <<"b", "a", "z">>,
                   <<"a", " ", "f", "O", "O">>, <<"D", "r", "a", "w", "i", "n", "g", " ", "9">> >>
RecordId(k) == "d" \o ToString(k)
SampleStamp(pattern, n, k) ==
    CASE pattern = "rising" -> k
      [] pattern = "falling" -> n + 1 - k
      [] pattern = "repeating" -> 1 + (k % 3)
SampleIndex(n, pattern) ==
    [k \in 1..n |-> Metadata(RecordId(k), SampleTitles[1 + (k % Len(SampleTitles))],
                             0, SampleStamp(pattern, n, k))]

\* Arguments of listDrawings and query parameters of GET.
Pages == {NoNum, Num(2), Num(3)}
Limits == {NoNum, Num(1), Num(2), Num(100)}
Searches == {TitleUndefined, TitleStr(<<" ">>), TitleStr(<<" ", "F", "O", "o", " ">>)}
NoParam == TitleUndefined
PageParams == {NoParam, TitleStr(<<"0">>), TitleStr(<<"-", "3">>),
               TitleStr(<<"a", "b", "c">>), TitleStr(<<"2">>)}
LimitParams == {NoParam, TitleStr(<<"a", "b", "c">>), TitleStr(<<"0">>), TitleStr(<<"-", "1">>),
                TitleStr(<<"1", "0", "1">>), TitleStr(<<"2", "x">>)}
SearchParams == {NoParam, TitleStr(<<"b", "A">>)}

-----------------------------------------------------------------------------
(* State.                                                                  *)

Outcome(op, id, ok, err, flag, out, prev) ==
    [op |-> op, id |-> id, ok |-> ok, err |-> err, flag |-> flag, out |-> out, prev |-> prev]

\* f with key mapped to value / with key removed.
Put(f, key, value) == [x \in DOMAIN f \cup {key} |-> IF x = key THEN value ELSE f[x]]
Drop(f, key) == [x \in DOMAIN f \ {key} |-> f[x]]

\* Requests the server is handling at once, and what each has reached.
Procs == {1, 2}

IdleCall == [pc |-> "idle", op |-> "", id |-> "", title |-> TitleUndefined, after |-> "",
             ok |-> FALSE, status |-> "", out |-> <<>>]
NoCalls == [p \in Procs |-> IdleCall]

\* lib/db.ts before any call of the overlap: `db` as the variable db has it
\* (module = 0), no instance made by a call, defaultData.drawings empty, no
\* write queued.
NoLow == [made |-> FALSE, isDefault |-> TRUE, drawings |-> <<>>]
NoHeap == [module |-> 0, low |-> [p \in Procs |-> NoLow], defaults |-> <<>>,
           queue |-> <<>>, first |-> <<>>]

\* The editor page before it is opened.
NoEditor == [open |-> FALSE]

Init ==
    /\ files = <<>>
    /\ dbFile = AbsentDb
    /\ db = NoDb
    /\ backups = <<>>
    /\ clock = 0
    /\ last = Outcome("init", "", TRUE, "", FALSE, <<>>, <<>>)
    /\ fsops = <<>>
    /\ lastSaved = <<>>
    /\ runs = 0
    /\ calls = NoCalls
    /\ heap = NoHeap
    /\ editor = NoEditor

-----------------------------------------------------------------------------
(* Operations of the server.                                               *)

\* isValidDrawingId(id)
Validate(id) ==
    /\ last' = Outcome("validate", id, IsDrawingId[id], "", FALSE, <<>>, <<>>)
    /\ fsops' = <<>>
    /\ UNCHANGED <<files, dbFile, db, backups, clock, lastSaved, runs, calls, heap, editor>>

\* getDrawingPath(drawingId)
GetDrawingPath(id) ==
    /\ last' = IF ~IsDrawingId[id]
               THEN Outcome("getDrawingPath", id, FALSE, "Invalid drawing ID", FALSE, <<>>, <<>>)
               ELSE Outcome("getDrawingPath", id, TRUE, "", FALSE,
                            <<FsCall("path", "drawing", id)>>, <<>>)
    /\ fsops' = <<>>
    /\ UNCHANGED <<files, dbFile, db, backups, clock, lastSaved, runs, calls, heap, editor>>

\* Read failures of fs.readFile on a file that is there ("" for none).
ReadFaults == {"", "EACCES"}

\* The try/catch of loadDrawing for a valid identifier: null for ENOENT,
\* any other error thrown again.  fault is the failure of fs.readFile on an
\* existing file.
loadDrawingSwallowing(fs, id, fault) ==
    IF id \notin DOMAIN fs \/ fault # "" \/ JSONparseThrows(fs[id])
    THEN Outcome("load", id, TRUE, "ENOENT", fault # "", <<>>, <<>>)
    ELSE Outcome("load", id, TRUE, "", FALSE, <<JSONparse(fs[id])>>, <<>>)

loadDrawing(fs, id, fault) ==
    IF id \notin DOMAIN fs
    THEN Outcome("load", id, TRUE, "ENOENT", FALSE, <<>>, <<>>)
    ELSE IF fault # ""
    THEN Outcome("load", id, FALSE, fault, TRUE, <<>>, <<>>)
    ELSE IF JSONparseThrows(fs[id])
    THEN Outcome("load", id, FALSE, "SyntaxError", FALSE, <<>>, <<>>)
    ELSE Outcome("load", id, TRUE, "", FALSE, <<JSONparse(fs[id])>>, <<>>)

\* loadDrawing(drawingId), fs.readFile failing with fault
LoadDrawingFault(id, fault) ==
    /\ IF ~IsDrawingId[id]
       THEN /\ last' = Outcome("load", id, TRUE, "invalid", FALSE, <<>>, <<>>)
            /\ fsops' = <<>>
       ELSE /\ fsops' = <<FsCall("readFile", "drawing", id)>>
            /\ last' = loadDrawing(files, id, fault)
    /\ UNCHANGED <<files, dbFile, db, backups, clock, lastSaved, runs, calls, heap, editor>>

\* loadDrawing(drawingId), the filesystem working
LoadDrawing(id) == LoadDrawingFault(id, "")

\* The filesystem calls saveDrawing issues once the identifier is accepted,
\* before it looks at the payload: ensureDrawingsDir().
SavePreludeEager(id) == <<FsCall("mkdir", "dir", "")>>

SavePrelude(id) ==
    IF ~IsDrawingId[id] THEN <<>> ELSE <<FsCall("mkdir", "dir", "")>>

\* saveDrawing(drawingId, drawingData, title)
SaveDrawing(id, drawingData, title) ==
    LET norm == NormalizePayload(drawingData)
        d1 == getDatabase(db, dbFile)
        existingMetadata == loadMetadata(d1, id)
        metadata == BuildMetadata(existingMetadata, id, title, clock)
        drawings == Upsert(d1.drawings, metadata)
    IN  IF ~IsDrawingId[id]
        THEN /\ last' = Outcome("save", id, FALSE, "Invalid drawing ID", FALSE, <<>>, <<>>)
             /\ fsops' = SavePrelude(id)
             /\ UNCHANGED <<files, dbFile, db, backups, clock, lastSaved, runs, calls, heap, editor>>
        ELSE IF ~norm.ok
        THEN /\ last' = Outcome("save", id, FALSE, norm.err, FALSE, <<>>, <<>>)
             /\ fsops' = SavePrelude(id)
             /\ UNCHANGED <<files, dbFile, db, backups, clock, lastSaved, runs, calls, heap, editor>>
        ELSE /\ files' = Put(files, id, ContentText(drawingData, norm.parsed))
             /\ db' = [loaded |-> TRUE, drawings |-> drawings]
             /\ dbFile' = DbFileOf(drawings)
             /\ fsops' = SavePrelude(id) \o <<FsCall("writeFile", "drawing", id)>>
                            \o getDatabaseCalls(db) \o <<FsCall("writeFile", "db", "")>>
             /\ last' = Outcome("save", id, TRUE, "", FALSE, <<metadata>>, existingMetadata)
             /\ lastSaved' = Put(lastSaved, id, norm.parsed)
             /\ UNCHANGED <<backups, clock, runs, calls, heap, editor>>

\* saveDrawing(drawingId, drawingData, title) in a process that dies after
\* fs.writeFile of the content file and before saveDatabase(): the file is
\* written, the index document is not, the instance in memory is gone.
SaveCrash(id, drawingData) ==
    LET norm == NormalizePayload(drawingData)
    IN  /\ IsDrawingId[id]
        /\ norm.ok
        /\ files' = Put(files, id, ContentText(drawingData, norm.parsed))
        /\ db' = NoDb
        /\ fsops' = SavePrelude(id) \o <<FsCall("writeFile", "drawing", id)>>
        /\ last' = Outcome("saveCrash", id, FALSE, "crash", FALSE, <<>>, <<>>)
        /\ lastSaved' = Put(lastSaved, id, norm.parsed)
        /\ UNCHANGED <<dbFile, backups, clock, runs, calls, heap, editor>>

\* await fs.access(drawingPath) succeeds: the content file is there
AccessAlways(fs, id) == TRUE

Access(fs, id) == id \in DOMAIN fs

\* DELETE /api/drawings/:id.  The handler unlinks <id>.excalidraw and the
\* legacy <id>.meta.json, which the LowDB revision never writes (the unlink
\* fails and the failure is ignored); it does not touch the index.
DeleteDrawing(id) ==
    IF ~IsDrawingId[id]
    THEN /\ last' = Outcome("delete", id, FALSE, "400", FALSE, <<>>, <<>>)
         /\ fsops' = <<>>
         /\ UNCHANGED <<files, dbFile, db, backups, clock, lastSaved, runs, calls, heap, editor>>
    ELSE IF ~Access(files, id)
    THEN /\ last' = Outcome("delete", id, FALSE, "404", FALSE, <<>>, <<>>)
         /\ fsops' = <<FsCall("access", "drawing", id)>>
         /\ UNCHANGED <<files, dbFile, db, backups, clock, lastSaved, runs, calls, heap, editor>>
    ELSE /\ files' = Drop(files, id)
         /\ lastSaved' = Drop(lastSaved, id)
         /\ fsops' = <<FsCall("access", "drawing", id), FsCall("unlink", "drawing", id),
                       FsCall("unlink", "meta", id)>>
         /\ last' = Outcome("delete", id, TRUE, "200", FALSE, <<>>, <<>>)
         /\ UNCHANGED <<dbFile, db, backups, clock, runs, calls, heap, editor>>

\* PUT /api/drawings/:id with body { drawing, title }: the checks of the
\* handler, loadDrawing for the 404, loadMetadata when title is undefined,
\* then saveDrawing(drawingId, drawing, finalTitle).
finalTitle(title, existingMetadata) ==
    IF title # TitleUndefined THEN title
    ELSE IF existingMetadata = <<>> THEN TitleUndefined
    ELSE TitleStr(existingMetadata[1].title)

PutDrawing(id, drawing, title) ==
    LET existingDrawing == loadDrawing(files, id, "")
        d1 == getDatabase(db, dbFile)
        existingMetadata == loadMetadata(d1, id)
        metadata == BuildMetadata(existingMetadata, id,
                                  finalTitle(title, existingMetadata), clock)
        drawings == Upsert(d1.drawings, metadata)
        readDrawing == <<FsCall("readFile", "drawing", id)>>
        writeDrawing == <<FsCall("mkdir", "dir", ""), FsCall("writeFile", "drawing", id)>>
        Refused(status, issued) ==
            /\ last' = Outcome("put", id, FALSE, status, FALSE, <<>>, <<>>)
            /\ fsops' = issued
            /\ UNCHANGED <<files, dbFile, db, backups, clock, lastSaved, runs, calls, heap, editor>>
    IN  IF ~IsDrawingId[id] THEN Refused("400", <<>>)
        ELSE IF Falsy(drawing) THEN Refused("400", <<>>)
        ELSE IF title # TitleUndefined /\ ~isValidTitle(title) THEN Refused("400", <<>>)
        ELSE IF ~isValidDrawingData(drawing) THEN Refused("400", <<>>)
        ELSE IF ~existingDrawing.ok THEN Refused("500", readDrawing)
        ELSE IF existingDrawing.out = <<>> THEN Refused("404", readDrawing)
        ELSE IF getDatabaseThrows(db, dbFile)
        THEN /\ last' = Outcome("put", id, FALSE, "500", FALSE, <<>>, <<>>)
             /\ db' = d1
             /\ IF title = TitleUndefined
                THEN /\ fsops' = readDrawing \o getDatabaseCalls(db)
                     /\ UNCHANGED <<files, lastSaved>>
                ELSE /\ fsops' = readDrawing \o writeDrawing \o getDatabaseCalls(db)
                     /\ files' = Put(files, id, ContentText(drawing, drawing))
                     /\ lastSaved' = Put(lastSaved, id, drawing)
             /\ UNCHANGED <<dbFile, backups, clock, runs, calls, heap, editor>>
        ELSE /\ files' = Put(files, id, ContentText(drawing, drawing))
             /\ db' = [loaded |-> TRUE, drawings |-> drawings]
             /\ dbFile' = DbFileOf(drawings)
             /\ fsops' = IF title = TitleUndefined
                         THEN readDrawing \o getDatabaseCalls(db) \o writeDrawing
                                  \o <<FsCall("writeFile", "db", "")>>
                         ELSE readDrawing \o writeDrawing \o getDatabaseCalls(db)
                                  \o <<FsCall("writeFile", "db", "")>>
             /\ last' = Outcome("put", id, TRUE, "200", FALSE, <<metadata>>, existingMetadata)
             /\ lastSaved' = Put(lastSaved, id, drawing)
             /\ UNCHANGED <<backups, clock, runs, calls, heap, editor>>

\* The server process is restarted: the cached instance is gone.
Restart ==
    /\ db.loaded
    /\ db' = NoDb
    /\ last' = Outcome("restart", "", TRUE, "", FALSE, <<>>, <<>>)
    /\ fsops' = <<>>
    /\ UNCHANGED <<files, dbFile, backups, clock, lastSaved, runs, calls, heap, editor>>

\* Time passes.
Tick ==
    /\ clock < MaxClock
    /\ clock' = clock + 1
    /\ last' = Outcome("tick", "", TRUE, "", FALSE, <<>>, <<>>)
    /\ fsops' = <<>>
    /\ UNCHANGED <<files, dbFile, db, backups, lastSaved, runs, calls, heap, editor>>

\* The user copies a drawing file into the content directory.
CopyIn(stem) ==
    /\ stem \notin DOMAIN files
    /\ files' = Put(files, stem, ForeignText)
    /\ lastSaved' = Drop(lastSaved, stem)
    /\ last' = Outcome("copyIn", stem, TRUE, "", FALSE, <<>>, <<>>)
    /\ fsops' = <<>>
    /\ UNCHANGED <<dbFile, db, backups, clock, runs, calls, heap, editor>>

\* A file whose text is not JSON appears in the content directory.
CopyInBroken(stem) ==
    /\ stem \notin DOMAIN files
    /\ files' = Put(files, stem, TInvalid)
    /\ lastSaved' = Drop(lastSaved, stem)
    /\ last' = Outcome("copyIn", stem, TRUE, "", TRUE, <<>>, <<>>)
    /\ fsops' = <<>>
    /\ UNCHANGED <<dbFile, db, backups, clock, runs, calls, heap, editor>>

\* metadata.json is damaged on disk: its text is no longer JSON.
CorruptDb == [state |-> "corrupt", drawings |-> <<>>]
Corrupt ==
    /\ dbFile.state = "ok"
    /\ dbFile' = CorruptDb
    /\ last' = Outcome("corrupt", "", TRUE, "", FALSE, <<>>, <<>>)
    /\ fsops' = <<>>
    /\ UNCHANGED <<files, db, backups, clock, lastSaved, runs, calls, heap, editor>>

\* listDrawings(options) called on the server.
ListDrawings(options) ==
    /\ last' = Outcome("list", "", TRUE, "", FALSE,
                       <<listDrawings(db, dbFile, options)>>, <<options>>)
    /\ db' = getDatabase(db, dbFile)
    /\ fsops' = getDatabaseCalls(db)
    /\ UNCHANGED <<files, dbFile, backups, clock, lastSaved, runs, calls, heap, editor>>

\* GET /api/drawings?page=..&limit=..&search=..
GetDrawings(pageParam, limitParam, searchParam) ==
    LET options == GetOptions(pageParam, limitParam, searchParam)
    IN  /\ last' = Outcome("GET", "", TRUE, "", FALSE,
                           <<listDrawings(db, dbFile, options)>>,
                           <<[page |-> pageParam, limit |-> limitParam, search |-> searchParam]>>)
        /\ db' = getDatabase(db, dbFile)
        /\ fsops' = <<FsCall("mkdir", "dir", "")>> \o getDatabaseCalls(db)
        /\ UNCHANGED <<files, dbFile, backups, clock, lastSaved, runs, calls, heap, editor>>

-----------------------------------------------------------------------------
(* The reconciliation script as one run.                                   *)

\* Orders in which readdirSync may list the files of S.
RECURSIVE Orders(_)
Orders(S) ==
    IF S = {} THEN {<<>>}
    ELSE UNION {{<<x>> \o rest : rest \in Orders(S \ {x})} : x \in S}

\* Identifiers in use anywhere: uuidv4() returns none of them.
BackupIds == UNION {Ids(backups[ms].drawings) : ms \in DOMAIN backups}
UsedIds == DOMAIN files \cup Ids(db.drawings) \cup Ids(dbFile.drawings) \cup BackupIds
UnusedPool == SelectSeq(SubSeq(PoolSeq, 1, MaxFresh), LAMBDA u : u \notin UsedIds)

\* scanDrawingsDirectory() for the listing order scan: the k-th file whose
\* name is no UUID receives the k-th unused UUID.
ScanDrawingsDirectory(scan) ==
    [i \in 1..Len(scan) |->
        LET k == Cardinality({j \in 1..i : ~IsUUID[scan[j]]})
        IN  DrawingFile(scan[i], IF IsUUID[scan[i]] THEN scan[i] ELSE UnusedPool[k])]

\* What rebuildMetadata() plans at clock reading now.
RebuildPlan(scan, now) ==
    LET drawingFiles == ScanDrawingsDirectory(scan)
        existingMetadata == MapOfDrawings(readDatabase(dbFile))
        acc == ProcessFiles(drawingFiles, existingMetadata, now)
        toRemove == OrphanedEntries(acc.map, drawingFiles)
    IN  [drawingFiles |-> drawingFiles,
         toAdd |-> acc.toAdd, toKeep |-> acc.toKeep,
         toRename |-> acc.toRename, toRemove |-> toRemove,
         emptyScan |-> ReturnsOnEmptyScan(drawingFiles),
         inSync |-> acc.toAdd = <<>> /\ toRemove = <<>> /\ acc.toRename = <<>>]

ReadCalls(scan) ==
    <<FsCall("existsSync", "db", "")>>
    \o (IF dbFile.state # "absent" THEN <<FsCall("readFileSync", "db", "")>> ELSE <<>>)
    \o <<FsCall("existsSync", "dir", ""), FsCall("readdirSync", "dir", "")>>
    \o [i \in 1..Len(scan) |-> FsCall("statSync", "drawing", scan[i])]

\* rebuildMetadata(): one run of the script over the directory as it is.
RebuildRun(execute, scan, failing) ==
    LET now == clock
        plan == RebuildPlan(scan, now)
        applies == ~plan.emptyScan /\ ~plan.inSync /\ AppliesChanges(execute)
        hasDb == dbFile.state # "absent"
        report == [drawingFiles |-> plan.drawingFiles,
                   toAdd |-> plan.toAdd,
                   toKeep |-> Ids(plan.toKeep),
                   toRename |-> {plan.toRename[i].currentId : i \in 1..Len(plan.toRename)},
                   toRemove |-> Ids(plan.toRemove),
                   emptyScan |-> plan.emptyScan, inSync |-> plan.inSync,
                   wrote |-> applies, failed |-> failing]
    IN  /\ Cardinality({i \in 1..Len(scan) : ~IsUUID[scan[i]]}) <= Len(UnusedPool)
        /\ failing \subseteq {scan[i] : i \in 1..Len(scan)}
        /\ \A stem \in failing : ~IsUUID[stem]
        /\ applies \/ failing = {}
        /\ last' = Outcome("rebuild", "", TRUE, "", execute, <<report>>, <<>>)
        /\ IF applies
           THEN /\ backups' = IF hasDb THEN Put(backups, now, dbFile) ELSE backups
                /\ files' = ApplyRenames(files, plan.toRename, failing)
                /\ dbFile' = DbFileOf(SortByUpdatedDesc(plan.toKeep \o plan.toAdd))
                /\ lastSaved' = [x \in DOMAIN lastSaved \cap DOMAIN files' |-> lastSaved[x]]
                /\ fsops' = ReadCalls(scan) \o <<FsCall("existsSync", "db", "")>>
                               \o ExecuteCalls(hasDb, now, plan.toRename)
           ELSE /\ fsops' = ReadCalls(scan)
                /\ UNCHANGED <<files, dbFile, backups, lastSaved>>
        /\ UNCHANGED <<db, clock>>

\* node scripts/rebuild-metadata.js [--execute]
Rebuild(execute, scan, failing) ==
    /\ runs < MaxRuns
    /\ runs' = runs + 1
    /\ UNCHANGED <<calls, heap, editor>>
    /\ RebuildRun(execute, scan, failing)

\* node scripts/rebuild-metadata.js --execute, run again right after an
\* execute-mode run, nothing else having touched the directory.
RebuildAgain(scan, failing) ==
    /\ last.op = "rebuild"
    /\ last.flag
    /\ RebuildRun(TRUE, scan, failing)
    /\ UNCHANGED <<runs, calls, heap, editor>>

-----------------------------------------------------------------------------
(* Requests that overlap.  A handler runs until it awaits filesystem I/O;  *)
(* the I/O takes effect and the handler goes on when its callback runs,    *)
(* and what it then does up to its next I/O is one step.  An await of a    *)
(* promise that is already resolved (getDatabase() with `db` set) lets no  *)
(* other request in.  While calls are in flight the variable db mirrors    *)
(* the data of the instance `db` points to.                                *)

\* db.data.drawings of the instance the module variable `db` holds.
ModuleData(h, d) ==
    IF h.module = 0 THEN d.drawings
    ELSE IF h.low[h.module].isDefault THEN h.defaults
    ELSE h.low[h.module].drawings

\* The heap after db.data.drawings of that instance has become drawings:
\* an instance whose read() found no document still holds defaultData, the
\* one object every such instance shares.
WithModuleData(h, drawings) ==
    IF h.module = 0 THEN h
    ELSE IF h.low[h.module].isDefault THEN [h EXCEPT !.defaults = drawings]
    ELSE [h EXCEPT !.low[h.module].drawings = drawings]

Mirror(drawings) == [loaded |-> TRUE, drawings |-> drawings]

\* Index of the write call p has queued.
QueuedAt(queue, p) == CHOOSE i \in 1..Len(queue) : queue[i].p = p

\* steno's Writer, one per instance: the writes of one instance reach the
\* file in the order they were called.
WriteTurnAnyOrder(queue, i) == TRUE

WriteTurn(queue, i) == \A j \in 1..(i - 1) : queue[j].low # queue[i].low

RemoveAt(queue, i) == SubSeq(queue, 1, i - 1) \o SubSeq(queue, i + 1, Len(queue))

\* created_at of each identifier as a write first put it into the document.
FirstWritten(first, drawings) ==
    [id \in DOMAIN first \cup Ids(drawings) |->
        IF id \in DOMAIN first THEN first[id]
        ELSE drawings[findIndex(drawings, id)].created_at]

\* A request arrives.  saveDrawing: the identifier is valid and
\* ensureDrawingsDir() is awaited.  PUT: the body is valid and loadDrawing
\* awaits fs.readFile.  DELETE: fs.access is awaited.
CallStart(p, op, id, title) ==
    /\ calls[p].pc = "idle"
    /\ IsDrawingId[id]
    /\ calls' = [calls EXCEPT ![p] = [IdleCall EXCEPT
                     !.pc = CASE op = "save" -> "ensureDir"
                              [] op = "put" -> "putLoad"
                              [] op = "delete" -> "access",
                     !.op = op, !.id = id, !.title = title]]
    /\ UNCHANGED <<files, dbFile, db, backups, clock, last, fsops, lastSaved, runs, heap, editor>>

\* saveDrawing: fs.mkdir has returned, the payload is an object,
\* fs.writeFile of the content file is awaited.
EnsureDir(p) ==
    /\ calls[p].pc = "ensureDir"
    /\ calls' = [calls EXCEPT ![p].pc = "writeFile"]
    /\ UNCHANGED <<files, dbFile, db, backups, clock, last, fsops, lastSaved, runs, heap, editor>>

\* saveDrawing from loadMetadata's result to the call of db.write(), on the
\* instance getDatabase() returns, whose drawings are data: the lookup, the
\* record, the upsert, and the document handed to the writer.
Upserted(p, h, data) ==
    LET c == calls[p]
        existingMetadata == loadMetadata(Mirror(data), c.id)
        metadata == BuildMetadata(existingMetadata, c.id, c.title, clock)
        drawings == Upsert(data, metadata)
    IN  /\ heap' = [WithModuleData(h, drawings) EXCEPT
                       !.queue = Append(@, [p |-> p, low |-> h.module, data |-> drawings])]
        /\ db' = Mirror(drawings)
        /\ calls' = [calls EXCEPT ![p].pc = "dbWrite", ![p].out = <<metadata>>]

\* saveDrawing: the content file is written; loadMetadata calls
\* getDatabase(), which returns `db` at once when it is set and awaits
\* fs.mkdir when it is not.
SaveWritten(p) ==
    /\ calls[p].pc = "writeFile"
    /\ files' = Put(files, calls[p].id, ContentText(Scene, Scene))
    /\ lastSaved' = Put(lastSaved, calls[p].id, Scene)
    /\ IF db.loaded
       THEN Upserted(p, heap, ModuleData(heap, db))
       ELSE /\ calls' = [calls EXCEPT ![p].pc = "dbMkdir", ![p].after = "save"]
            /\ UNCHANGED <<heap, db>>
    /\ UNCHANGED <<dbFile, backups, clock, last, fsops, runs, editor>>

\* getDatabase(): fs.mkdir has returned; `db = new Low(adapter, defaultData)`
\* (its data is defaultData itself) and db.read() is awaited.
DbMkdir(p) ==
    /\ calls[p].pc = "dbMkdir"
    /\ heap' = [heap EXCEPT !.module = p,
                            !.low[p] = [made |-> TRUE, isDefault |-> TRUE, drawings |-> <<>>]]
    /\ db' = Mirror(heap.defaults)
    /\ calls' = [calls EXCEPT ![p].pc = "dbRead"]
    /\ UNCHANGED <<files, dbFile, backups, clock, last, fsops, lastSaved, runs, editor>>

\* getDatabase(): read() of the instance this call made has returned (its
\* data is the document read, or stays defaultData when there is none);
\* getDatabase() returns the module variable `db`, which may by now hold
\* the instance of another call, and the caller goes on with it.
DbRead(p) ==
    LET c == calls[p]
        h1 == IF dbFile.state = "ok"
              THEN [heap EXCEPT !.low[p] = [made |-> TRUE, isDefault |-> FALSE,
                                            drawings |-> dbFile.drawings]]
              ELSE heap
        data == ModuleData(h1, db)
    IN  /\ c.pc = "dbRead"
        /\ IF dbFile.state = "corrupt"
           THEN /\ calls' = [calls EXCEPT ![p].pc = "done", ![p].status = "500"]
                /\ UNCHANGED <<heap, db>>
           ELSE IF c.after = "save"
           THEN Upserted(p, h1, data)
           ELSE /\ calls' = [calls EXCEPT
                                ![p].pc = "ensureDir",
                                ![p].title = finalTitle(c.title, loadMetadata(Mirror(data), c.id))]
                /\ heap' = h1
                /\ db' = Mirror(data)
        /\ UNCHANGED <<files, dbFile, backups, clock, last, fsops, lastSaved, runs, editor>>

\* saveDatabase(): the document handed to the writer is in metadata.json
\* and saveDrawing returns its record.
DbWrite(p) ==
    /\ calls[p].pc = "dbWrite"
    /\ LET i == QueuedAt(heap.queue, p)
       IN  /\ WriteTurn(heap.queue, i)
           /\ dbFile' = DbFileOf(heap.queue[i].data)
           /\ heap' = [heap EXCEPT !.queue = RemoveAt(@, i),
                                   !.first = FirstWritten(@, heap.queue[i].data)]
    /\ calls' = [calls EXCEPT ![p].pc = "done", ![p].ok = TRUE, ![p].status = "200"]
    /\ UNCHANGED <<files, db, backups, clock, last, fsops, lastSaved, runs, editor>>

\* PUT: loadDrawing has read the content file (404 when there is none);
\* with no title in the body loadMetadata is awaited for the stored one,
\* then saveDrawing is called.
PutLoad(p) ==
    LET c == calls[p]
        existingDrawing == loadDrawing(files, c.id, "")
    IN  /\ c.pc = "putLoad"
        /\ IF ~existingDrawing.ok
           THEN calls' = [calls EXCEPT ![p].pc = "done", ![p].status = "500"]
           ELSE IF existingDrawing.out = <<>>
           THEN calls' = [calls EXCEPT ![p].pc = "done", ![p].status = "404"]
           ELSE IF c.title # TitleUndefined
           THEN calls' = [calls EXCEPT ![p].pc = "ensureDir"]
           ELSE IF db.loaded
           THEN calls' = [calls EXCEPT
                             ![p].pc = "ensureDir",
                             ![p].title = finalTitle(c.title,
                                 loadMetadata(Mirror(ModuleData(heap, db)), c.id))]
           ELSE calls' = [calls EXCEPT ![p].pc = "dbMkdir", ![p].after = "put"]
        /\ UNCHANGED <<files, dbFile, db, backups, clock, last, fsops, lastSaved, runs, heap, editor>>

\* DELETE: fs.access has returned (404 when the file is not there);
\* fs.unlink of the content file is awaited.
DeleteAccess(p) ==
    /\ calls[p].pc = "access"
    /\ calls' = IF Access(files, calls[p].id)
                THEN [calls EXCEPT ![p].pc = "unlink"]
                ELSE [calls EXCEPT ![p].pc = "done", ![p].status = "404"]
    /\ UNCHANGED <<files, dbFile, db, backups, clock, last, fsops, lastSaved, runs, heap, editor>>

\* DELETE: fs.unlink has removed the content file (or thrown ENOENT, which
\* the handler answers with 500); the unlink of the legacy <id>.meta.json
\* fails unnoticed; the index is not touched.
DeleteUnlink(p) ==
    /\ calls[p].pc = "unlink"
    /\ IF calls[p].id \in DOMAIN files
       THEN /\ files' = Drop(files, calls[p].id)
            /\ lastSaved' = Drop(lastSaved, calls[p].id)
            /\ calls' = [calls EXCEPT ![p].pc = "done", ![p].ok = TRUE, ![p].status = "200"]
       ELSE /\ calls' = [calls EXCEPT ![p].pc = "done", ![p].status = "500"]
            /\ UNCHANGED <<files, lastSaved>>
    /\ UNCHANGED <<dbFile, db, backups, clock, last, fsops, runs, heap, editor>>

-----------------------------------------------------------------------------
(* The editor page: hooks/useDrawing.ts and components/Toolbar.tsx.  React *)
(* renders a state update made while an event is handled, and runs the     *)
(* effects that re-register the handlers, before the next event is         *)
(* dispatched: the re-render is part of the step that set the state.       *)

\* The page as it mounts: isNew is drawingId === 'new'; currentAppStateRef
\* is null until Excalidraw reports a change or the drawing is loaded.
\* seen is the isSaving the saveDrawing callback in use has closed over;
\* requests the methods of the fetches not yet answered; pushed whether
\* router.push has been called and the route has not changed yet; title
\* the text of the Toolbar's title field; sent and created count the
\* requests this page sent and the drawings they created.
MountedEditor(isNew) ==
    [open |-> TRUE, isNew |-> isNew, appState |-> FALSE, isSaving |-> FALSE, seen |-> FALSE,
     title |-> <<>>, requests |-> <<>>, status |-> "", pushed |-> FALSE, sent |-> 0,
     created |-> 0]

\* React renders: saveDrawing is made again with the current isSaving and
\* the Toolbar registers it.
Rendered(e) == [e EXCEPT !.seen = e.isSaving]

OpenEditor(isNew) ==
    /\ ~editor.open
    /\ editor' = MountedEditor(isNew)
    /\ UNCHANGED <<files, dbFile, db, backups, clock, last, fsops, lastSaved, runs, calls, heap>>

\* handleChange, or the load of an existing drawing: currentAppStateRef is set
HandleChange ==
    /\ editor.open
    /\ ~editor.appState
    /\ editor' = [editor EXCEPT !.appState = TRUE]
    /\ UNCHANGED <<files, dbFile, db, backups, clock, last, fsops, lastSaved, runs, calls, heap>>

\* The user types in the title field of the Toolbar.
EditorTitles == {<<>>, <<"T">>}

SetTitle(title) ==
    /\ editor.open
    /\ editor.title # title
    /\ editor' = [editor EXCEPT !.title = title]
    /\ UNCHANGED <<files, dbFile, db, backups, clock, last, fsops, lastSaved, runs, calls, heap>>

\* title.trim() || `Drawing ${new Date().toISOString().slice(0, 10)}`
getFinalTitle(title) == IF trim(title) # <<>> THEN trim(title) ELSE <<"D", "r", "a", "w", "i", "n", "g", " ", "d", "a", "t", "e">>

\* `if (isSaving) return;` of saveDrawing
SavingGuard(e) == e.seen

\* The Save button (disabled while isSaving) or Ctrl/Cmd+S: Toolbar calls
\* onSave(getFinalTitle()), which is saveDrawing(title) up to its fetch.
TriggerSave(key) ==
    /\ editor.open
    /\ key \/ ~editor.seen
    /\ editor.sent < MaxSaves
    /\ editor' = IF SavingGuard(editor) THEN editor
                 ELSE IF ~editor.appState
                 THEN [editor EXCEPT !.status = "Error: Drawing state not initialized"]
                 ELSE Rendered([editor EXCEPT
                          !.isSaving = TRUE,
                          !.requests = Append(@, [method |-> IF editor.isNew THEN "POST" ELSE "PUT",
                                                  title |-> getFinalTitle(editor.title)]),
                          !.sent = @ + 1])
    /\ UNCHANGED <<files, dbFile, db, backups, clock, last, fsops, lastSaved, runs, calls, heap>>

\* The answer to the oldest request arrives: saveDrawing from `await fetch`
\* to its finally.  answer is "ok" (success: true), "refused" (success:
\* false), "http" (response.ok false) or "network" (fetch rejects).
Answers == {"ok", "refused", "http", "network"}

SaveAnswered(answer) ==
    /\ editor.open
    /\ editor.requests # <<>>
    /\ LET method == Head(editor.requests).method
           e1 == [editor EXCEPT !.requests = Tail(@)]
           e2 == IF answer = "ok"
                 THEN [e1 EXCEPT !.status = "Saved",
                                 !.pushed = @ \/ e1.isNew,
                                 !.created = IF method = "POST" THEN @ + 1 ELSE @]
                 ELSE [e1 EXCEPT !.status = answer]
       IN  editor' = Rendered([e2 EXCEPT !.isSaving = FALSE])
    /\ UNCHANGED <<files, dbFile, db, backups, clock, last, fsops, lastSaved, runs, calls, heap>>

\* router.push(`/drawing/${result.drawingId}`) takes effect: the route is
\* that of the drawing and the page of that drawing is mounted.
Navigated ==
    /\ editor.open
    /\ editor.pushed
    /\ editor' = [MountedEditor(FALSE) EXCEPT !.sent = editor.sent, !.created = editor.created]
    /\ UNCHANGED <<files, dbFile, db, backups, clock, last, fsops, lastSaved, runs, calls, heap>>

-----------------------------------------------------------------------------
(* Specifications.                                                         *)

SaveStep(ids, payloads, titles) ==
    \E id \in ids, drawingData \in payloads, title \in titles :
        SaveDrawing(id, drawingData, title)

RebuildStep(modes) ==
    \E execute \in modes, scan \in Orders(DOMAIN files), failing \in SUBSET ForeignStems :
        Rebuild(execute, scan, failing)

\* Spec: the store the server leaves, then reconciled.  The script is run
\* offline, with the directory to itself: the server's operations build the
\* store it finds, and it is run up to MaxRuns times, dry or with --execute,
\* under every listing order and every set of failing renames.
ServerStep ==
    \/ SaveStep(SaveIds, {Scene}, {TitleUndefined})
    \/ \E id \in SaveIds : DeleteDrawing(id)
    \/ Tick
    \/ \E stem \in ForeignStems : CopyIn(stem)

Next ==
    \/ runs = 0 /\ ServerStep
    \/ RebuildStep(BOOLEAN)

Spec == Init /\ [][Next]_vars

\* SpecStore: the server alone, over time and across restarts.
NextStore ==
    \/ SaveStep(SaveIds, {Scene}, Titles)
    \/ \E id \in SaveIds : DeleteDrawing(id)
    \/ \E id \in SaveIds : LoadDrawing(id)
    \/ Restart
    \/ Tick

SpecStore == Init /\ [][NextStore]_vars

\* SpecIndex: the server and execute-mode runs of the script in any order
\* (the server may hold an instance of the index read before a run), at one
\* clock reading.
NextIndex ==
    \/ SaveStep(SaveIds, {Scene}, {TitleUndefined})
    \/ \E id \in SaveIds : DeleteDrawing(id)
    \/ Restart
    \/ CopyIn(U2)
    \/ RebuildStep({TRUE})

SpecIndex == Init /\ [][NextIndex]_vars

\* SpecPayload: one drawing saved with every kind of payload, loaded,
\* deleted and overwritten by hand.
NextPayload ==
    \/ SaveStep({U1}, Payloads, {TitleUndefined})
    \/ LoadDrawing(U1)
    \/ DeleteDrawing(U1)
    \/ CopyIn(U1)
    \/ Tick

SpecPayload == Init /\ [][NextPayload]_vars

\* SpecIds: every operation that takes an identifier, on identifiers the
\* validator accepts and on identifiers it must refuse.
NextIds ==
    \/ \E id \in ValidatorInputs : Validate(id)
    \/ \E id \in SaveIds \cup BadIds : GetDrawingPath(id)
    \/ \E id \in SaveIds \cup BadIds : LoadDrawing(id)
    \/ SaveStep(SaveIds \cup BadIds, {Scene, JsNull}, {TitleUndefined})
    \/ \E id \in SaveIds \cup BadIds : DeleteDrawing(id)

SpecIds == Init /\ [][NextIds]_vars

\* SpecTitles: saves with the titles the HTTP layer accepts, a file named
\* ".excalidraw" copied in, and execute-mode runs of the script.
NextTitles ==
    \/ SaveStep({U1}, {Scene}, AcceptedTitles)
    \/ CopyIn("empty")
    \/ RebuildStep({TRUE})
    \/ Tick

SpecTitles == Init /\ [][NextTitles]_vars

\* SpecCorrupt: the server and the script on a store whose index document
\* may be damaged.
NextCorrupt ==
    \/ SaveStep({U1}, {Scene}, {TitleUndefined})
    \/ ListDrawings(NoOptions)
    \/ Corrupt
    \/ Restart
    \/ Tick
    \/ RebuildStep(BOOLEAN)

SpecCorrupt == Init /\ [][NextCorrupt]_vars

\* SpecPut: one drawing created with a title, then updated with every kind
\* of title and payload a request may carry, deleted and created again.
PutPayloads == {Scene, JsNull, JsObj(<<>>)}

NextPut ==
    \/ SaveStep({U1}, {Scene}, Titles)
    \/ \E drawing \in PutPayloads, title \in RequestTitles : PutDrawing(U1, drawing, title)
    \/ DeleteDrawing(U1)
    \/ Tick

SpecPut == Init /\ [][NextPut]_vars

\* SpecOverlap: a store with one drawing, the server restarted or not, then
\* two saves of new drawings whose steps interleave in every way.
Quiet == calls = NoCalls

SaveCallStep(p) ==
    \/ EnsureDir(p)
    \/ SaveWritten(p)
    \/ DbMkdir(p)
    \/ DbRead(p)
    \/ DbWrite(p)

NextOverlap ==
    \/ Quiet /\ SaveStep({U2}, {Scene}, {TitleUndefined})
    \/ Quiet /\ Restart
    \/ Tick
    \/ \E p \in Procs, id \in SaveIds : CallStart(p, "save", id, TitleUndefined)
    \/ \E p \in Procs : SaveCallStep(p)

SpecOverlap == Init /\ [][NextOverlap]_vars

\* SpecPutDelete: one drawing saved, the server restarted or not, then an
\* update and a delete of it whose steps interleave in every way.
NextPutDelete ==
    \/ Quiet /\ SaveStep({U1}, {Scene}, {TitleStr(<<"T">>)})
    \/ Quiet /\ Restart
    \/ \E title \in {TitleUndefined, TitleStr(<<"T">>)} : CallStart(1, "put", U1, title)
    \/ CallStart(2, "delete", U1, TitleUndefined)
    \/ PutLoad(1)
    \/ SaveCallStep(1)
    \/ DeleteAccess(2)
    \/ DeleteUnlink(2)

SpecPutDelete == Init /\ [][NextPutDelete]_vars

\* SpecEditor: one editor page, of a new drawing or of an existing one, its
\* saves triggered at any time and answered in every way.
NextEditor ==
    \/ \E isNew \in BOOLEAN : OpenEditor(isNew)
    \/ HandleChange
    \/ \E title \in EditorTitles : SetTitle(title)
    \/ \E key \in BOOLEAN : TriggerSave(key)
    \/ \E answer \in Answers : SaveAnswered(answer)
    \/ Navigated

SpecEditor == Init /\ [][NextEditor]_vars

\* SpecLoad: loadDrawing on files that are absent, well formed, not JSON,
\* or unreadable.
NextLoad ==
    \/ SaveStep(SaveIds, {Scene}, {TitleUndefined})
    \/ \E id \in SaveIds : DeleteDrawing(id)
    \/ \E id \in SaveIds : CopyIn(id)
    \/ \E id \in SaveIds : CopyInBroken(id)
    \/ \E id \in SaveIds, fault \in ReadFaults : LoadDrawingFault(id, fault)

SpecLoad == Init /\ [][NextLoad]_vars

\* SpecRename: execute-mode runs over directories with several files to
\* rename, any of whose renames may fail.
RenameStep ==
    \E scan \in Orders(DOMAIN files), failing \in SUBSET RenameStems :
        Rebuild(TRUE, scan, failing)

NextRename ==
    \/ SaveStep({U1}, {Scene}, {TitleUndefined})
    \/ \E stem \in RenameStems : CopyIn(stem)
    \/ RenameStep

SpecRename == Init /\ [][NextRename]_vars

\* SpecCrash: saves that complete, saves that die between the content file
\* and the index, and execute-mode runs of the script.
NextCrash ==
    \/ SaveStep(SaveIds, {Scene}, {TitleUndefined})
    \/ \E id \in SaveIds : SaveCrash(id, Scene)
    \/ RebuildStep({TRUE})
    \/ Tick

SpecCrash == Init /\ [][NextCrash]_vars

\* SpecRerun: execute-mode runs of the script, each of which may be
\* followed at once by further execute-mode runs.
NextRerun ==
    \/ SaveStep({U1}, {Scene}, {TitleUndefined})
    \/ DeleteDrawing(U1)
    \/ CopyIn(N1)
    \/ RebuildStep({TRUE})
    \/ \E scan \in Orders(DOMAIN files), failing \in SUBSET ForeignStems : RebuildAgain(scan, failing)

SpecRerun == Init /\ [][NextRerun]_vars

\* SpecQuery: listDrawings and GET /api/drawings on indexes of several
\* sizes and orders, the server having just started.
InitQuery ==
    \E n \in IndexSizes, pattern \in StampPatterns :
        /\ dbFile = (IF n = 0 THEN AbsentDb ELSE DbFileOf(SampleIndex(n, pattern)))
        /\ files = [id \in {RecordId(k) : k \in 1..n} |-> JSONstringify(Scene)]
        /\ db = NoDb
        /\ backups = <<>>
        /\ clock = n + 1
        /\ last = Outcome("init", "", TRUE, "", FALSE, <<>>, <<>>)
        /\ fsops = <<>>
        /\ lastSaved = <<>>
        /\ runs = 0
        /\ calls = NoCalls
        /\ heap = NoHeap
        /\ editor = NoEditor

NextQuery ==
    \/ \E page \in Pages, limit \in Limits, search \in Searches :
           ListDrawings([page |-> page, limit |-> limit, search |-> search])
    \/ \E pageParam \in PageParams, limitParam \in LimitParams, searchParam \in SearchParams :
           GetDrawings(pageParam, limitParam, searchParam)

SpecQuery == InitQuery /\ [][NextQuery]_vars

-----------------------------------------------------------------------------
(* Properties.                                                             *)

Report == last.out[1]
SaveSucceeded == last.op = "save" /\ last.ok
UniqueIds(drawings) ==
    \A i, j \in 1..Len(drawings) : drawings[i].id = drawings[j].id => i = j
AllowedChars == LowerChars \cup UpperChars \cup DigitChars \cup {"_", "-"}
UnsafeText(s) ==
    \/ s = <<>>
    \/ Len(s) > 100
    \/ includes(s, <<".", ".">>) \/ includes(s, <<"/">>) \/ includes(s, <<"\\">>)
MutatingCalls == {"mkdir", "writeFile", "unlink", "rename", "copyFile"}
StartsWith(s, prefix) == Len(s) >= Len(prefix) /\ SubSeq(s, 1, Len(prefix)) = prefix

\* C1: in every step of any sequence of saves, deletes and execute-mode
\* runs of the script from the empty index, the index (the file and the
\* instance the server holds) has at most one record per identifier, and a
\* successful save replaces the record of its identifier in place when the
\* server's index has one and appends a record only when it has none.
C1_OneRecordPerId ==
    [][ /\ UniqueIds(dbFile'.drawings)
        /\ UniqueIds(db'.drawings)
        /\ (last'.op = "save" /\ last'.ok) =>
              LET before == getDatabase(db, dbFile).drawings
                  after == dbFile'.drawings
              IN  IF last'.id \in Ids(before)
                  THEN /\ Len(after) = Len(before)
                       /\ \A i \in 1..Len(before) :
                             after[i] = IF before[i].id = last'.id THEN last'.out[1]
                                        ELSE before[i]
                  ELSE after = Append(before, last'.out[1]) ]_vars

\* A save has replaced a record in an index of several records that a run
\* of the script wrote.
C1_Witness ==
    /\ SaveSucceeded /\ last.prev # <<>>
    /\ runs > 0
    /\ Len(dbFile.drawings) >= 2

\* C2 as stated: a successful save on an identifier that has a record keeps
\* the record's created_at and moves its updated_at strictly past the value
\* the earlier save left; no step changes a created_at or lowers an
\* updated_at.
C2_UpdatedAtAdvances ==
    [][ \A i \in 1..Len(dbFile.drawings) :
           LET old == dbFile.drawings[i]
               j == findIndex(dbFile'.drawings, old.id)
           IN  /\ j # 0
               /\ dbFile'.drawings[j].created_at = old.created_at
               /\ dbFile'.drawings[j].updated_at >= old.updated_at
               /\ (last'.op = "save" /\ last'.ok /\ last'.id = old.id) =>
                     dbFile'.drawings[j].updated_at > old.updated_at ]_vars

\* C2 (amended): a successful save on an identifier that has a record keeps
\* the record's created_at and sets its updated_at to the clock reading of
\* that save, which (the clock not going back) is not before the earlier
\* updated_at and is equal to it when both saves read the same millisecond;
\* no step changes a created_at or lowers an updated_at.
C2_CreatedAtKept ==
    [][ \A i \in 1..Len(dbFile.drawings) :
           LET old == dbFile.drawings[i]
               j == findIndex(dbFile'.drawings, old.id)
           IN  /\ j # 0
               /\ dbFile'.drawings[j].created_at = old.created_at
               /\ dbFile'.drawings[j].updated_at >= old.updated_at
               /\ (last'.op = "save" /\ last'.ok /\ last'.id = old.id) =>
                     dbFile'.drawings[j].updated_at = clock' ]_vars

\* A second save at a later clock reading: created_at is the first save's,
\* updated_at is later.
C2_Witness ==
    /\ SaveSucceeded /\ last.prev # <<>>
    /\ last.out[1].created_at = last.prev[1].created_at
    /\ last.out[1].updated_at > last.prev[1].updated_at
    /\ last.out[1].created_at < last.out[1].updated_at

\* C3: after a successful delete the identifier has no record in the index
\* file and is in no listing.
C3_DeleteRemovesRecord ==
    (last.op = "delete" /\ last.ok) =>
        /\ last.id \notin Ids(dbFile.drawings)
        /\ last.id \notin Ids(listDrawings(db, dbFile, NoOptions).drawings)

\* C4 as stated: a load that follows an accepted save of the same
\* identifier, with nothing done to that identifier in between, returns the
\* normalized payload of the save.
C4_RoundTrip ==
    (last.op = "load" /\ last.id \in DOMAIN lastSaved) =>
        last.ok /\ last.out = <<lastSaved[last.id]>>

\* C4 (amended): the same, for payloads whose normalized form JSON can
\* represent (objects, arrays, strings, finite numbers, null; no undefined
\* member, no NaN or Infinity).
C4_RoundTripRepresentable ==
    (last.op = "load" /\ last.id \in DOMAIN lastSaved /\ JsonRepresentable(lastSaved[last.id])) =>
        last.ok /\ last.out = <<lastSaved[last.id]>>

\* A load has returned the payload of the save before it.
C4_Witness ==
    /\ last.op = "load" /\ last.id \in DOMAIN lastSaved
    /\ JsonRepresentable(lastSaved[last.id])
    /\ last.out = <<lastSaved[last.id]>>

\* C5: path derivation, load, save and delete refuse an identifier that is
\* empty, longer than 100 characters or contains "..", "/" or "\", and make
\* no filesystem call for it.
C5_UnsafeIdTouchesNothing ==
    (last.op \in {"getDrawingPath", "load", "save", "delete"} /\ UnsafeText(Text(last.id))) =>
        /\ fsops = <<>>
        /\ last.out = <<>>
        /\ CASE last.op = "getDrawingPath" -> ~last.ok /\ last.err = "Invalid drawing ID"
             [] last.op = "load" -> last.err = "invalid"
             [] last.op = "save" -> ~last.ok /\ last.err = "Invalid drawing ID"
             [] last.op = "delete" -> ~last.ok /\ last.err = "400"

\* A save was asked for an identifier with ".." inside while drawings exist.
C5_Witness ==
    /\ last.op = "save" /\ last.id = "inner-dotdot" /\ ~last.ok
    /\ fsops = <<>>
    /\ files # <<>>

\* C6: isValidDrawingId answers true exactly for strings of 1 to 100
\* characters all among letters, digits, "_" and "-", and so false for the
\* empty string, strings over 100 characters and strings with "..", "/",
\* "\" or any other character.
C6_ValidIdCharacterisation ==
    last.op = "validate" =>
        LET id == Text(last.id)
        IN  /\ last.ok = (/\ Len(id) >= 1 /\ Len(id) <= 100
                          /\ \A i \in 1..Len(id) : id[i] \in AllowedChars)
            /\ UnsafeText(id) => ~last.ok

\* The validator accepted a string of exactly 100 characters.
C6_Witness == last.op = "validate" /\ last.id = "len100" /\ last.ok

\* C7: after an execute-mode run in which no rename failed, every record of
\* the index file has its content file.
C7_NoOrphanAfterExecute ==
    (last.op = "rebuild" /\ last.flag /\ Report.failed = {}) =>
        Ids(dbFile.drawings) \subseteq DOMAIN files

\* C8: a run without --execute changes no content file, no backup and not
\* the index file, and makes no mutating filesystem call.
C8_DryRunChangesNothing ==
    [][ (runs' # runs /\ ~last'.flag) =>
           /\ files' = files
           /\ dbFile' = dbFile
           /\ backups' = backups
           /\ \A i \in 1..Len(fsops') : fsops'[i].call \notin MutatingCalls ]_vars

\* A dry run has reported an addition, a rename and a removal.
C8_Witness ==
    /\ last.op = "rebuild" /\ ~last.flag
    /\ Report.toAdd # <<>> /\ Report.toRename # {} /\ Report.toRemove # {}

\* C9: an execute-mode run that changes a content file or the index, with
\* an index file present at its start, copies that file to a backup before
\* it renames any content file and before it writes the index, and the
\* backup holds what the index file held when the run started.
C9_BackupFirst ==
    [][ (runs' # runs /\ last'.flag /\ dbFile.state # "absent"
            /\ (files' # files \/ dbFile' # dbFile)) =>
           /\ clock \in DOMAIN backups'
           /\ backups'[clock] = dbFile
           /\ \E i \in 1..Len(fsops') :
                 /\ fsops'[i].call = "copyFile"
                 /\ \A j \in 1..Len(fsops') :
                       fsops'[j].call \in {"rename", "writeFile"} => i < j ]_vars

\* An execute-mode run has backed the index up, renamed a file and written
\* a different index.
C9_Witness ==
    /\ last.op = "rebuild" /\ last.flag /\ Report.wrote
    /\ Report.toRename # {} /\ Report.failed = {}
    /\ clock \in DOMAIN backups /\ backups[clock] # dbFile

C11_RetainedRecordKept ==
    [][ (runs' # runs /\ last'.out[1].wrote) =>
           \A k \in 1..Len(last'.out[1].drawingFiles) :
               LET file == last'.out[1].drawingFiles[k]
                   before == readDatabase(dbFile)
                   i == IF findIndex(before, file.id) # 0 THEN findIndex(before, file.id)
                        ELSE findIndex(before, file.currentId)
                   j == findIndex(dbFile'.drawings, file.id)
               IN  i # 0 =>
                      /\ j # 0
                      /\ dbFile'.drawings[j].title = before[i].title
                      /\ dbFile'.drawings[j].created_at = before[i].created_at
                      /\ dbFile'.drawings[j].updated_at = before[i].updated_at
                      /\ (file.currentId = file.id => dbFile'.drawings[j] = before[i]) ]_vars

\* A run has written an index in which the record of a renamed file was
\* kept under the new identifier, at a later clock reading than the
\* record's.
C11_Witness ==
    /\ last.op = "rebuild" /\ Report.wrote
    /\ \E k \in 1..Len(Report.drawingFiles) :
          LET file == Report.drawingFiles[k]
          IN  /\ file.needsRename
              /\ file.id \in Report.toKeep
              /\ \E j \in 1..Len(dbFile.drawings) :
                    dbFile.drawings[j].id = file.id /\ dbFile.drawings[j].updated_at < clock

\* Claim-side notions for the queries.
Listed == last.op \in {"list", "GET"}
Result == last.out[1]
LowerChar(c) == IF \E j \in 1..Len(UpperSeq) : UpperSeq[j] = c
                THEN LowerSeq[CHOOSE j \in 1..Len(UpperSeq) : UpperSeq[j] = c] ELSE c
NotBlank(c) == c \notin WhiteSpace
\* the search term of the last query, trimmed; <<>> when absent or blank
Term ==
    LET search == last.prev[1].search
    IN  IF search.k # "str" \/ SelectSeq(search.s, NotBlank) = <<>> THEN <<>>
        ELSE LET first == CHOOSE i \in 1..Len(search.s) :
                              NotBlank(search.s[i]) /\ \A j \in 1..(i - 1) : ~NotBlank(search.s[j])
                 final == CHOOSE i \in 1..Len(search.s) :
                              NotBlank(search.s[i]) /\ \A j \in (i + 1)..Len(search.s) : ~NotBlank(search.s[j])
             IN  SubSeq(search.s, first, final)
ContainsIgnoringCase(title, term) ==
    \E i \in 0..(Len(title) - Len(term)) :
        \A j \in 1..Len(term) : LowerChar(title[i + j]) = LowerChar(term[j])
\* positions in the stored index of the records the last query's term selects
Selected == {k \in 1..Len(db.drawings) : ContainsIgnoringCase(db.drawings[k].title, Term)}
OnPage(total) ==
    LET before == (Result.page - 1) * Result.limit
    IN  IF total <= before THEN 0
        ELSE IF total - before < Result.limit THEN total - before ELSE Result.limit

\* C12: a query with a search term returns only records whose title contains
\* the trimmed term ignoring case, as many of them as fall on the requested
\* page, and total counts the records after filtering; an empty or
\* whitespace-only term filters nothing.
C12_SearchFilters ==
    Listed =>
        /\ \A i \in 1..Len(Result.drawings) :
               /\ ContainsIgnoringCase(Result.drawings[i].title, Term)
               /\ \E k \in Selected : db.drawings[k] = Result.drawings[i]
        /\ Result.total = Cardinality(Selected)
        /\ Len(Result.drawings) = OnPage(Cardinality(Selected))
        /\ \A i, j \in 1..Len(Result.drawings) :
               i # j => Result.drawings[i].id # Result.drawings[j].id
        /\ (Term = <<>> => Result.total = Len(db.drawings))

C12_Witness ==
    /\ last.op = "list"
    /\ Term = <<"F", "O", "o">>
    /\ Len(db.drawings) = 25
    /\ Result.total = 12
    /\ Result.page = 2
    /\ Result.limit = 2
    /\ Len(Result.drawings) = 2

\* the whole sorted, filtered list of the last query: its search on one page
\* large enough for every record
LastSearch == last.prev[1].search
WholeList ==
    listDrawings(db, dbFile, [page |-> Num(1), limit |-> Num(MaxLimit), search |-> LastSearch]).drawings
PageOf(p, limit) ==
    listDrawings(db, dbFile, [page |-> Num(p), limit |-> Num(limit), search |-> LastSearch]).drawings
RECURSIVE PagesUpTo(_, _)
PagesUpTo(p, limit) == IF p = 0 THEN <<>> ELSE PagesUpTo(p - 1, limit) \o PageOf(p, limit)
\* the least number of pages of the given size that hold total records
Ceil(total, limit) == CHOOSE n \in 0..total : n * limit >= total /\ (n = 0 \/ (n - 1) * limit < total)

\* C13: for a page >= 1 and a limit in 1..100, totalPages is
\* ceil(total / limit), the records returned are those at positions
\* [(page-1)*limit, (page-1)*limit + limit) of the sorted, filtered list, an
\* empty index yields [], 0 and 0, 25 records at limit 12 make 3 pages with 1
\* record on page 3, and the pages 1..totalPages hold every filtered record
\* exactly once.
C13_Pagination ==
    (Listed /\ Result.page >= 1 /\ Result.limit \in 1..MaxLimit) =>
        LET before == (Result.page - 1) * Result.limit
            whole == WholeList
        IN  /\ Result.totalPages = Ceil(Result.total, Result.limit)
            /\ Result.total = Len(whole)
            /\ Len(Result.drawings) = OnPage(Result.total)
            /\ \A i \in 1..Len(Result.drawings) : Result.drawings[i] = whole[before + i]
            /\ (db.drawings = <<>> =>
                    Result.drawings = <<>> /\ Result.total = 0 /\ Result.totalPages = 0)
            /\ (Result.total = 25 /\ Result.limit = 12 =>
                    /\ Result.totalPages = 3
                    /\ Result.page = 3 => Len(Result.drawings) = 1)
            /\ PagesUpTo(Result.totalPages, Result.limit) = whole
            /\ Len(whole) = Cardinality(Selected)
            /\ \A i, j \in 1..Len(whole) : i # j => whole[i].id # whole[j].id

C13_Witness ==
    /\ last.op = "list"
    /\ LastSearch = TitleUndefined
    /\ Result.total = 25
    /\ Result.limit = 12
    /\ Result.page = 3
    /\ Result.totalPages = 3
    /\ Len(Result.drawings) = 1

\* C14: the records a query returns are ordered by updated_at descending,
\* records of equal updated_at in their stored order, and the query leaves
\* the stored order of the index as it was.
StoredPosition(drawing, stored) == CHOOSE k \in 1..Len(stored) : stored[k] = drawing
C14_MostRecentFirst ==
    [][(last'.op \in {"list", "GET"}) =>
          LET returned == last'.out[1].drawings
              stored == getDatabase(db, dbFile).drawings
          IN  /\ \A i, j \in 1..Len(returned) :
                     i < j =>
                         \/ returned[i].updated_at > returned[j].updated_at
                         \/ /\ returned[i].updated_at = returned[j].updated_at
                            /\ StoredPosition(returned[i], stored) < StoredPosition(returned[j], stored)
              /\ db'.drawings = stored
              /\ dbFile' = dbFile]_vars

C14_Witness ==
    /\ last.op = "list"
    /\ Len(Result.drawings) = 4
    /\ Result.drawings[1].updated_at = 3
    /\ Result.drawings[2].updated_at = 2
    /\ Result.drawings[3].updated_at = 2
    /\ Result.drawings[2].id = RecordId(1)
    /\ Result.drawings[3].id = RecordId(4)
    /\ db.drawings[1].id = RecordId(1)
    /\ db.drawings[2].updated_at = 3

\* Claim-side reading of a query parameter.
PageParam == last.prev[1].page
LimitParam == last.prev[1].limit
Missing(param) == param.k # "str" \/ param.s = <<>>
\* an optionally negative decimal integer, and nothing else
IsNumeral(s) ==
    LET digits == IF s # <<>> /\ Head(s) = "-" THEN Tail(s) ELSE s
    IN  digits # <<>> /\ \A i \in 1..Len(digits) : digits[i] \in DigitChars
NumeralValue(s) ==
    IF Head(s) = "-" THEN 0 - DecimalValue(Tail(s)) ELSE DecimalValue(s)
\* the longest numeral the text begins with; <<>> when it begins with none
LeadingNumeral(s) ==
    IF \E n \in 1..Len(s) : IsNumeral(SubSeq(s, 1, n))
    THEN LET n == CHOOSE n \in 1..Len(s) :
                      /\ IsNumeral(SubSeq(s, 1, n))
                      /\ \A m \in (n + 1)..Len(s) : ~IsNumeral(SubSeq(s, 1, m))
         IN  SubSeq(s, 1, n)
    ELSE <<>>
PageFor(numeric, value) == IF ~numeric \/ value < 1 THEN 1 ELSE value
LimitFor(numeric, value) ==
    IF ~numeric THEN 12 ELSE IF value < 1 THEN 1 ELSE IF value > 100 THEN 100 ELSE value
ReportedAreUsed ==
    /\ Result.page >= 1
    /\ Result.limit \in 1..100
    /\ Len(Result.drawings) = OnPage(Result.total)
    /\ Result.totalPages = Ceil(Result.total, Result.limit)

\* C15: for every list request the page used is at least 1 and the limit
\* used is within 1..100: a missing, zero, negative or non-numeric page
\* becomes 1, a missing or non-numeric limit 12, a limit below 1 becomes 1 and
\* one above 100 becomes 100; the page and limit reported are those used.
C15_Clamped ==
    last.op = "GET" =>
        LET pageNumeric == ~Missing(PageParam) /\ IsNumeral(PageParam.s)
            limitNumeric == ~Missing(LimitParam) /\ IsNumeral(LimitParam.s)
        IN  /\ Result.page = PageFor(pageNumeric, IF pageNumeric THEN NumeralValue(PageParam.s) ELSE 0)
            /\ Result.limit = LimitFor(limitNumeric, IF limitNumeric THEN NumeralValue(LimitParam.s) ELSE 0)
            /\ ReportedAreUsed

\* C15, amended: as C15, a parameter counting as numeric when it begins with
\* an optionally negative decimal integer, and being read as that integer.
C15_ClampedLeadingInteger ==
    last.op = "GET" =>
        LET pageText == IF Missing(PageParam) THEN <<>> ELSE LeadingNumeral(PageParam.s)
            limitText == IF Missing(LimitParam) THEN <<>> ELSE LeadingNumeral(LimitParam.s)
        IN  /\ Result.page = PageFor(pageText # <<>>, IF pageText # <<>> THEN NumeralValue(pageText) ELSE 0)
            /\ Result.limit = LimitFor(limitText # <<>>, IF limitText # <<>> THEN NumeralValue(limitText) ELSE 0)
            /\ ReportedAreUsed

C15_Witness ==
    /\ last.op = "GET"
    /\ PageParam = TitleStr(<<"-", "3">>)
    /\ LimitParam = TitleStr(<<"1", "0", "1">>)
    /\ Result.page = 1
    /\ Result.limit = 100
    /\ Len(Result.drawings) = 25

\* C16: a delete request for a valid identifier that has no content file is
\* answered with not-found, deletes no file and leaves the index unchanged.
C16_DeleteMissingNotFound ==
    [][(last'.op = "delete" /\ IsDrawingId[last'.id] /\ last'.id \notin DOMAIN files) =>
          /\ ~last'.ok
          /\ last'.err = "404"
          /\ \A i \in 1..Len(fsops') : fsops'[i].call \notin MutatingCalls
          /\ files' = files
          /\ dbFile' = dbFile
          /\ db' = db]_vars

C16_Witness ==
    /\ last.op = "delete"
    /\ last.err = "404"
    /\ IsDrawingId[last.id]
    /\ last.id \notin DOMAIN files
    /\ \E i \in 1..Len(db.drawings) : db.drawings[i].id = last.id
    /\ dbFile.state = "ok"

\* C17: save fails with an invalid-payload error for every payload that is
\* an unparseable string, that is not a non-null object after parsing, or
\* that does not satisfy the scene envelope, the save itself making this
\* check: a save that succeeded has stored a payload that is a non-null
\* object satisfying the envelope.
C17_SaveChecksEnvelope ==
    (last.op = "save" /\ last.ok) =>
        /\ last.id \in DOMAIN lastSaved
        /\ TypeofObject(lastSaved[last.id])
        /\ lastSaved[last.id] # JsNull
        /\ isValidDrawingData(lastSaved[last.id])

\* C18: a save rejected for its identifier or its payload is rejected before
\* any I/O: no filesystem call is made (no directory created, no content
\* file written) and the index, in memory and on disk, is as before.
C18_RejectedBeforeIO ==
    [][(last'.op = "save" /\ ~last'.ok) =>
          /\ fsops' = <<>>
          /\ files' = files
          /\ db' = db
          /\ dbFile' = dbFile]_vars

\* C19: every record of the index, written by a save or fabricated by
\* reconciliation, has a title of length 1..200 that is not whitespace-only;
\* a save with an absent, empty or whitespace-only title stores "Drawing "
\* and the first 8 characters of the identifier, any other the trimmed title.
WellFormedTitle(title) ==
    /\ Len(title) \in 1..200
    /\ \E i \in 1..Len(title) : NotBlank(title[i])
Trimmed(text) ==
    IF SelectSeq(text, NotBlank) = <<>> THEN <<>>
    ELSE LET first == CHOOSE i \in 1..Len(text) :
                          NotBlank(text[i]) /\ \A j \in 1..(i - 1) : ~NotBlank(text[j])
             final == CHOOSE i \in 1..Len(text) :
                          NotBlank(text[i]) /\ \A j \in (i + 1)..Len(text) : ~NotBlank(text[j])
         IN  SubSeq(text, first, final)
C19_TitlesWellFormed ==
    /\ \A i \in 1..Len(dbFile.drawings) : WellFormedTitle(dbFile.drawings[i].title)
    /\ \A i \in 1..Len(db.drawings) : WellFormedTitle(db.drawings[i].title)
    /\ \A title \in AcceptedTitles, id \in SaveIds :
           BuildMetadata(<<>>, id, title, clock).title =
               IF title.k # "str" \/ Trimmed(title.s) = <<>>
               THEN <<"D", "r", "a", "w", "i", "n", "g", " ">>
                        \o SubSeq(Text(id), 1, IF Len(Text(id)) < 8 THEN Len(Text(id)) ELSE 8)
               ELSE Trimmed(title.s)

\* C20: when the index document is corrupt, every operation that needs it
\* (the metadata lookup of a save, a query, reconciliation) fails with an
\* error; none treats the index as empty or the record as absent, and none
\* overwrites the index.
C20_CorruptIndexIsFatal ==
    [][(\/ last'.op \in {"save", "list"} /\ getDatabaseThrows(db, dbFile)
        \/ last'.op = "rebuild" /\ dbFile.state = "corrupt") =>
          /\ ~last'.ok
          /\ dbFile' = dbFile]_vars

\* C21: load of a valid identifier returns the parsed document when the
\* content file exists (and can be read and parsed), null when the file does
\* not exist, and raises any other read or parse failure; a failure other
\* than the file's absence is never reported as not-found.
C21_LoadDistinguishesNotFound ==
    (last.op = "load" /\ IsDrawingId[last.id]) =>
        IF last.id \notin DOMAIN files
        THEN last.ok /\ last.out = <<>>
        ELSE /\ ~(last.ok /\ last.out = <<>>)
             /\ last.ok => last.out = <<JSONparse(files[last.id])>>
             /\ (last.flag \/ JSONparseThrows(files[last.id])) => ~last.ok
             /\ last.ok \/ last.err \in {"SyntaxError"} \cup (ReadFaults \ {""})

\* A load of a file that is there but is not JSON has raised.
C21_Witness ==
    /\ last.op = "load"
    /\ last.id \in DOMAIN files
    /\ JSONparseThrows(files[last.id])
    /\ ~last.ok
    /\ last.err = "SyntaxError"

\* C22: in an execute-mode run a failure to rename one content file does
\* not abort the run: the other files are still renamed, the new index is
\* still written, and the run ends without raising.
C22_RenameFailureContinues ==
    [][(last'.op = "rebuild" /\ last'.flag /\ last'.out[1].failed # {}) =>
          LET report == last'.out[1]
          IN  /\ last'.ok
              /\ \A i \in 1..Len(report.drawingFiles) :
                     LET file == report.drawingFiles[i]
                     IN  (file.needsRename /\ file.currentId \notin report.failed) =>
                             /\ file.currentId \notin DOMAIN files'
                             /\ file.id \in DOMAIN files'
                             /\ files'[file.id] = files[file.currentId]
              /\ \A stem \in report.failed : stem \in DOMAIN files' /\ files'[stem] = files[stem]
              /\ dbFile'.state = "ok"
              /\ Ids(dbFile'.drawings) = {report.drawingFiles[i].id : i \in 1..Len(report.drawingFiles)}
              /\ fsops'[Len(fsops')] = FsCall("writeFile", "db", "")]_vars

\* A run in which one rename failed and another file was renamed.
C22_Witness ==
    /\ last.op = "rebuild" /\ last.flag /\ last.ok
    /\ Report.failed = {N1}
    /\ Report.toRename = {N1, "Z9_-"}
    /\ N1 \in DOMAIN files
    /\ "Z9_-" \notin DOMAIN files
    /\ Report.wrote

\* C23: a save interrupted after the content file is written and before the
\* index is persisted leaves a content file whose record is missing or
\* stale, and an execute-mode run that follows produces an index with
\* exactly one record for that content file.
RecordsOf(drawings, id) == {i \in 1..Len(drawings) : drawings[i].id = id}
C23_InterruptedSaveRepaired ==
    [][/\ (last'.op = "saveCrash") =>
              /\ last'.id \in DOMAIN files'
              /\ dbFile' = dbFile
       /\ (last.op = "saveCrash" /\ last'.op = "rebuild" /\ last'.flag) =>
              LET report == last'.out[1]
                  entry == report.drawingFiles[CHOOSE i \in 1..Len(report.drawingFiles) :
                                                   report.drawingFiles[i].currentId = last.id]
                  name == IF last.id \in DOMAIN files' THEN last.id ELSE entry.id
              IN  /\ name \in DOMAIN files'
                  /\ files'[name] = files[last.id]
                  /\ Cardinality(RecordsOf(dbFile'.drawings, name)) = 1]_vars

\* C25: after an execute-mode run completes, the index and the content
\* store agree: the identifiers of the index are those of the content files
\* on disk, every one is a UUID-v4 string, and each content file has exactly
\* one record; for every starting state, runs with a failed rename included.
C25_IndexAgreesWithFiles ==
    [][(last'.op = "rebuild" /\ last'.flag) =>
          /\ Ids(dbFile'.drawings) = DOMAIN files'
          /\ \A id \in DOMAIN files' :
                 /\ IsUUID[id]
                 /\ Cardinality(RecordsOf(dbFile'.drawings, id)) = 1]_vars

\* What a run reports to rename, add or remove (nothing when it returns on
\* an empty directory).
FindsNothing(report) ==
    \/ report.emptyScan
    \/ report.toRename = {} /\ report.toAdd = <<>> /\ report.toRemove = {}
SecondRunChangesNothing ==
    /\ FindsNothing(last'.out[1])
    /\ ~last'.out[1].wrote
    /\ files' = files
    /\ dbFile' = dbFile
    /\ backups' = backups
ExecuteRunsInSuccession ==
    /\ last.op = "rebuild" /\ last.flag
    /\ last'.op = "rebuild" /\ last'.flag

-----------------------------------------------------------------------------
\* C28: an update whose request provides no title (title omitted, null or
\* the empty string, all of which the validation of the handler accepts)
\* leaves the stored title of the drawing as it was.
NoTitles == {TitleUndefined, TitleNull, TitleStr(<<>>)}

TitleOf(drawings, id) == drawings[findIndex(drawings, id)].title

C28_NoTitleKeepsTitle ==
    [][\A title \in NoTitles :
          (/\ U1 \in Ids(dbFile.drawings)
           /\ PutDrawing(U1, Scene, title)
           /\ last'.ok)
          => TitleOf(dbFile'.drawings, U1) = TitleOf(dbFile.drawings, U1)]_vars

-----------------------------------------------------------------------------
\* C24: two overlapping saves on different identifiers can lose an update:
\* both return successfully and the index lacks the record of one of them
\* (C24_Witness).  When that happens the database instance was made while
\* the calls were in flight (the first call found `db` unset), and it is
\* the record of one call only that is missing; saves that overlap on an
\* instance that was loaded before lose nothing.
Returned(p) == calls[p].pc = "done" /\ calls[p].ok

BothSaved ==
    /\ \A p \in Procs : calls[p].op = "save" /\ Returned(p)
    /\ calls[1].id # calls[2].id

Lost == {p \in Procs : calls[p].id \notin Ids(dbFile.drawings)}

C24_LostUpdateOnColdStartOnly ==
    BothSaved => /\ Cardinality(Lost) <= 1
                 /\ Lost # {} => heap.module # 0

C24_Witness ==
    /\ BothSaved
    /\ Cardinality(Lost) = 1
    /\ U2 \in Ids(dbFile.drawings)

-----------------------------------------------------------------------------
\* C26: when two saves of the same, previously unsaved identifier overlap,
\* the record the index holds after both have returned has the created_at
\* that was first written to the index for that identifier.
BothSavedSame ==
    /\ \A p \in Procs : calls[p].op = "save" /\ Returned(p)
    /\ calls[1].id = calls[2].id

C26_CreatedAtFirstWritten ==
    BothSavedSame =>
        LET id == calls[1].id
        IN  /\ id \in Ids(dbFile.drawings)
            /\ dbFile.drawings[findIndex(dbFile.drawings, id)].created_at = heap.first[id]

-----------------------------------------------------------------------------
\* C27: an update never creates a drawing that does not exist: it answers
\* 404 when the identifier has no content file, and however it interleaves
\* with a delete of the same identifier, once both have completed after a
\* successful delete there is no content file and no record of it.
BothCompleted == \A p \in Procs : calls[p].pc = "done"

DeleteSucceeded == \E p \in Procs : calls[p].op = "delete" /\ Returned(p)

C27_UpdateNeverCreates ==
    /\ [][\A p \in Procs :
             (PutLoad(p) /\ calls[p].id \notin DOMAIN files) => calls'[p].status = "404"]_vars
    /\ [](\A p \in Procs :
             (BothCompleted /\ DeleteSucceeded) =>
                 /\ calls[p].id \notin DOMAIN files
                 /\ calls[p].id \notin Ids(dbFile.drawings))

-----------------------------------------------------------------------------
\* C30: the save guard of the editor prevents double saves: at most one
\* save request of a page is in flight at any time, a save triggered while
\* one is in flight sends no request, a new drawing is never created twice,
\* and after every save attempt isSaving is false again.
C30_SaveGuard ==
    /\ [](editor.open =>
             /\ Len(editor.requests) <= 1
             /\ editor.created <= 1
             /\ (editor.requests = <<>> => ~editor.isSaving))
    /\ [][\A key \in BOOLEAN :
             (editor.open /\ editor.requests # <<>> /\ TriggerSave(key))
                 => editor'.requests = editor.requests]_vars

====
